---- MODULE Spec2Model ----
(***************************************************************************)
(* Resonance-structure generation and filtration of RDMC                   *)
(* (rdmc/resonance/resonance_rmg.py, filtration.py, pathfinder.py).        *)
(*                                                                         *)
(* A molecular graph is a record                                           *)
(*   elem, nh, chg, rad : sequences indexed by heavy atom (1-based)        *)
(*   ba, bb, ord        : sequences indexed by bond (1-based)              *)
(*   rings              : sequence of rings, each a sequence of bond ids   *)
(* Hydrogen atoms are leaves that no rule edits; each heavy atom carries   *)
(* the number nh of hydrogens bonded to it, which counts in its valence.   *)
(* ord holds the RDKit BondType number: 1, 2, 3, or 12 for AROMATIC.       *)
(* Values the code computes as halves (lone pairs, aromatic bond orders,   *)
(* the S#S penalty) are carried doubled so that they stay exact.           *)
(***************************************************************************)
EXTENDS Integers, Sequences, FiniteSets, TLC

VARIABLES
    pc,                   \* position in the call being modelled
    entry,                \* the function that was called
    input_list,           \* the list of graphs passed in (the seed alone for a seed call)
    opts,                 \* keyword arguments of the call
    features,             \* the feature snapshot (analyze_molecule)
    mol_list,             \* the worklist / the list being filtered
    filtered_list,        \* filter_structures, charge_filtration: the survivors so far
    extra_charged,        \* charge_filtration: extra_charged_list, the 2nd charge span layer
    method_list,          \* the rules of the running expansion pass
    index,                \* scan index of the running pass
    min_octet_deviation,  \* running minimum of the pass (doubled)
    min_charge_span,      \* running minimum of the pass
    todo,                 \* expansion passes still to run
    passes,               \* expansion passes run so far
    result,               \* what the call returned
    kek                   \* which Kekule form RDKit's Kekulize picks

vars == <<pc, entry, input_list, opts, features, mol_list, filtered_list,
          extra_charged, method_list, index, min_octet_deviation, min_charge_span,
          todo, passes, result, kek>>

----------------------------------------------------------------------------
(* Generic helpers *)

(* F applied to the value of v: the argument of a call is evaluated once, before
   the call *)
ByValue(v, F(_)) == CHOOSE out \in {F(x) : x \in {v}} : TRUE

ByValue2(v, w, F(_, _)) == CHOOSE out \in {F(x, y) : x \in {v}, y \in {w}} : TRUE

RECURSIVE SumFrom(_, _)
SumFrom(s, i) == IF i > Len(s) THEN 0 ELSE s[i] + SumFrom(s, i + 1)

SumSeq(s) == ByValue(s, LAMBDA v : SumFrom(v, 1))

Abs(x) == IF x < 0 THEN -x ELSE x

MinOf(S) == ByValue(S, LAMBDA T : CHOOSE x \in T : \A y \in T : x <= y)

MaxOf(S) == ByValue(S, LAMBDA T : CHOOSE x \in T : \A y \in T : x >= y)

Range(s) == {s[i] : i \in 1..Len(s)}

(* s with the elements at the positions in keep, in order (a list comprehension) *)
RECURSIVE SelectFrom(_, _, _)
SelectFrom(s, keep, i) ==
    IF i > Len(s) THEN << >>
    ELSE (IF i \in keep THEN <<s[i]>> ELSE << >>) \o SelectFrom(s, keep, i + 1)

SelectIdx(s, keep, i) ==
    ByValue(s, LAMBDA v : ByValue(keep, LAMBDA kept : SelectFrom(v, kept, i)))

RECURSIVE ConcatFrom(_, _)
ConcatFrom(ss, i) == IF i > Len(ss) THEN << >> ELSE ss[i] \o ConcatFrom(ss, i + 1)

Concat(ss) == ByValue(ss, LAMBDA lists : ConcatFrom(lists, 1))

----------------------------------------------------------------------------
(* The graph model: what the code reads through the RDKit atom and bond API *)

Atoms(mol) == 1..Len(mol.elem)

Bonds(mol) == 1..Len(mol.ord)

GetBonds(mol, a) == {b \in Bonds(mol) : mol.ba[b] = a \/ mol.bb[b] = a}

GetOtherAtom(mol, b, a) == IF mol.ba[b] = a THEN mol.bb[b] ELSE mol.ba[b]

(* twice Bond.GetBondTypeAsDouble(): an aromatic bond counts 1.5 *)
GetBondTypeAsDouble2(t) == IF t = 12 THEN 3 ELSE 2 * t

(* int(sum of the atom's bond orders), hydrogens included *)
get_total_bond_order(mol, a) ==
    LET bs == GetBonds(mol, a)
        f[S \in SUBSET bs] ==
            IF S = {} THEN 0
            ELSE LET b == CHOOSE x \in S : TRUE
                 IN GetBondTypeAsDouble2(mol.ord[b]) + f[S \ {b}]
    IN (2 * mol.nh[a] + f[bs]) \div 2

GetNOuterElecs(z) ==
    CASE z = 1 -> 1 [] z = 6 -> 4 [] z = 7 -> 5 [] z = 8 -> 6 [] z = 16 -> 6

(* TWICE the value of get_lone_pair: the code divides the electron balance by 2
   without an integrality check, so an odd balance is a fractional lone pair *)
get_lone_pair(mol, a) ==
    ByValue(a, LAMBDA atom : GetNOuterElecs(mol.elem[atom]) - mol.rad[atom] - mol.chg[atom]
                                 - get_total_bond_order(mol, atom))

(* get_lone_pair(atom) in vals, for the float the code compares *)
LonePairIn(mol, a, vals) ==
    ByValue(get_lone_pair(mol, a), LAMBDA lone_pair : \E k \in vals : lone_pair = 2 * k)

GetFormalCharge(mol) == SumSeq(mol.chg)

get_radical_count(mol) == SumSeq(mol.rad)

is_radical(mol) == get_radical_count(mol) > 0

is_cyclic(mol) == Len(mol.rings) > 0

(* (sum of |charge| - |net charge|) / 2 *)
get_charge_span(mol) ==
    (SumSeq([i \in 1..Len(mol.chg) |-> Abs(mol.chg[i])]) - Abs(GetFormalCharge(mol))) \div 2

(* Pauling electronegativity, times 100 *)
get_electronegativity(z) ==
    CASE z = 1 -> 220 [] z = 6 -> 255 [] z = 7 -> 304 [] z = 8 -> 344 [] z = 16 -> 258

get_order_str(t) ==
    CASE t = 1 -> "S" [] t = 2 -> "D" [] t = 3 -> "T" [] t = 12 -> "B"

----------------------------------------------------------------------------
(* filtration.py *)

(* TWICE the octet deviation (the S#S penalty is 0.5 per sulfur atom) *)
get_octet_deviation_atom(mol, a, allow_expanded_octet) ==
    LET z   == mol.elem[a]
        lp2 == get_lone_pair(mol, a)
        r   == mol.rad[a]
        val == 2 * get_total_bond_order(mol, a) + lp2 + r
        oct == Abs(8 - val)
        base == IF z \in {6, 7, 8} THEN oct
                ELSE IF z = 16 THEN
                    (IF ~allow_expanded_octet THEN oct
                     ELSE IF lp2 <= 2 THEN MinOf({oct, Abs(10 - val), Abs(12 - val)})
                     ELSE IF lp2 >= 4 THEN oct
                     ELSE 0)
                ELSE 0
        sss == IF z = 16
               THEN Cardinality({b \in GetBonds(mol, a) :
                        mol.elem[GetOtherAtom(mol, b, a)] = 16 /\ mol.ord[b] = 3})
               ELSE 0
        birad == IF r >= 2 /\ (   (z = 7 /\ lp2 = 0)
                               \/ (z = 8 /\ lp2 \in {0, 2, 4})
                               \/ (z = 16 /\ lp2 \in {0, 2, 4}))
                 THEN 3 ELSE 0
    IN 2 * base + sss + 2 * birad

get_octet_deviation(mol, allow_expanded_octet) ==
    SumSeq([a \in 1..Len(mol.elem) |-> get_octet_deviation_atom(mol, a, allow_expanded_octet)])

get_octet_deviation_list(ml, allow_expanded_octet) ==
    [i \in 1..Len(ml) |-> get_octet_deviation(ml[i], allow_expanded_octet)]

octet_filtration_keep_all(ml, octet_deviation_list) == ml

octet_filtration(ml, octet_deviation_list) ==
    LET min_dev == MinOf(Range(octet_deviation_list))
    IN SelectIdx(ml, {i \in 1..Len(ml) : octet_deviation_list[i] = min_dev}, 1)

get_charge_span_list(ml) == [i \in 1..Len(ml) |-> get_charge_span(ml[i])]

(* the atom the name "atom" is bound to once "for atom in mol.GetAtoms()" has run
   to its end: the last atom, which is a hydrogen (0 here) when the graph has any,
   explicit hydrogens being numbered after the heavy atoms *)
LastAtom(mol) == IF SumSeq(mol.nh) > 0 THEN 0 ELSE Len(mol.elem)

has_unique_sites(mol, rad_idxs, mul_bond_idxs) ==
    \/ \E a \in Atoms(mol) : mol.rad[a] # 0 /\ a \notin rad_idxs
    \/ /\ LastAtom(mol) # 0
       /\ \E b \in GetBonds(mol, LastAtom(mol)) :
            /\ mol.ord[b] \in {2, 3}
            /\ {mol.ba[b], mol.bb[b]} \notin mul_bond_idxs
            /\ ~(mol.elem[mol.ba[b]] = 16 /\ mol.elem[mol.bb[b]] = 16)

(* number of matches of the oxonium template [O+X{1-3};!$([O+]-F)] *)
OxoniumMatches(mol) ==
    Cardinality({a \in Atoms(mol) :
        /\ mol.elem[a] = 8 /\ mol.chg[a] = 1
        /\ mol.nh[a] + Cardinality(GetBonds(mol, a)) \in 1..3})

ObeysElectronegativity(mol) ==
    LET X_positive == SumSeq([a \in 1..Len(mol.elem) |->
                         IF mol.chg[a] > 0
                         THEN get_electronegativity(mol.elem[a]) * Abs(mol.chg[a]) ELSE 0])
        X_negative == SumSeq([a \in 1..Len(mol.elem) |->
                         IF mol.chg[a] < 0
                         THEN get_electronegativity(mol.elem[a]) * Abs(mol.chg[a]) ELSE 0])
    IN X_positive + 100 * OxoniumMatches(mol) <= X_negative

(* the structures that obey the preference, whatever allow_empty_list says *)
stabilize_charges_by_electronegativity_strict(ml, allow_empty_list) ==
    SelectIdx(ml, {i \in 1..Len(ml) : ObeysElectronegativity(ml[i])}, 1)

stabilize_charges_by_electronegativity(ml, allow_empty_list) ==
    LET mol_list_copy == SelectIdx(ml, {i \in 1..Len(ml) : ObeysElectronegativity(ml[i])}, 1)
    IN IF mol_list_copy # << >> \/ allow_empty_list THEN mol_list_copy ELSE ml

(* len(Chem.GetShortestPath(mol, a1, a2)): the number of atoms on a shortest path *)
RECURSIVE Reach(_, _, _)
Reach(mol, S, k) ==
    IF k = 0 THEN S
    ELSE Reach(mol, S \cup {GetOtherAtom(mol, b, a) : <<a, b>> \in
                     {<<x, y>> \in S \X Bonds(mol) : y \in GetBonds(mol, x)}}, k - 1)

GetShortestPathLen(mol, a1, a2) ==
    1 + MinOf({k \in 0..Len(mol.elem) : a2 \in Reach(mol, {a1}, k)})

get_charge_distance(mol) ==
    LET pos_atoms == {a \in Atoms(mol) : mol.chg[a] = 1}
        neg_atoms == {a \in Atoms(mol) : mol.chg[a] = -1}
        PairSum(P) == LET f[S \in SUBSET P] ==
                            IF S = {} THEN 0
                            ELSE LET p == CHOOSE x \in S : TRUE
                                 IN GetShortestPathLen(mol, p[1], p[2]) + f[S \ {p}]
                      IN f[P]
        Combos(A) == {p \in A \X A : p[1] < p[2]}
    IN [opposite |-> PairSum(pos_atoms \X neg_atoms),
        similar  |-> PairSum(Combos(pos_atoms)) + PairSum(Combos(neg_atoms))]

stabilize_charges_by_proximity(ml) ==
    LET charge_distance_list == [i \in 1..Len(ml) |-> get_charge_distance(ml[i])]
        min_opp == IF ml = << >> THEN 0
                   ELSE MinOf({charge_distance_list[i].opposite : i \in 1..Len(ml)})
        max_sim == IF ml = << >> THEN 0
                   ELSE MaxOf({charge_distance_list[i].similar : i \in 1..Len(ml)})
    IN SelectIdx(ml, {i \in 1..Len(ml) :
                        /\ charge_distance_list[i].opposite <= min_opp
                        /\ charge_distance_list[i].similar >= max_sim}, 1)

charge_filtration(ml) ==
    LET charge_span_list == get_charge_span_list(ml)
        spans == Range(charge_span_list)
        min_span == MinOf(spans)
        layered == Cardinality(spans) > 1
        filtered0 == IF layered
                     THEN SelectIdx(ml, {i \in 1..Len(ml) : charge_span_list[i] = min_span}, 1)
                     ELSE ml
        extra0 == IF layered
                  THEN SelectIdx(ml, {i \in 1..Len(ml) : charge_span_list[i] = min_span + 1}, 1)
                  ELSE << >>
        flist == stabilize_charges_by_proximity(
                            stabilize_charges_by_electronegativity(filtered0, FALSE))
        rad_idxs == {a \in 1..Len(ml[1].elem) :
                        \E i \in 1..Len(flist) : flist[i].rad[a] # 0}
        mul_bond_idxs == UNION {{{flist[i].ba[b], flist[i].bb[b]} :
                                    b \in {x \in Bonds(flist[i]) :
                                             flist[i].ord[x] \in {2, 3}}} :
                                i \in 1..Len(flist)}
        extra1 == SelectIdx(extra0, {i \in 1..Len(extra0) :
                                has_unique_sites(extra0[i], rad_idxs, mul_bond_idxs)}, 1)
        extra_charged_list ==
            IF extra1 # << >>
            THEN stabilize_charges_by_proximity(
                    stabilize_charges_by_electronegativity(extra1, TRUE))
            ELSE extra1
    IN IF min_span = 0 /\ Cardinality(spans) = 1 THEN ml
       ELSE flist \o extra_charged_list

----------------------------------------------------------------------------
(* Graph comparison and the RDKit operations the rules call *)

(* the atom renumberings that keep a skeleton's bonds: the only maps a match of two
   graphs of one skeleton can use *)
Sym(topo) ==
    CASE topo = "chain3" -> {<<1, 2, 3>>, <<3, 2, 1>>}
      [] topo = "ring6"  -> {[i \in 1..6 |-> ((i - 1 + k) % 6) + 1] : k \in 0..5}
                            \cup {[i \in 1..6 |-> ((k - i + 6) % 6) + 1] : k \in 0..5}
      [] topo = "benzyl" -> {<<1, 2, 3, 4, 5, 6, 7>>, <<1, 6, 5, 4, 3, 2, 7>>}
      [] topo = "naph"   -> {<<1, 2, 3, 4, 5, 6, 7, 8, 9, 10>>,
                             <<4, 3, 2, 1, 8, 7, 6, 5, 10, 9>>,
                             <<8, 7, 6, 5, 4, 3, 2, 1, 9, 10>>,
                             <<5, 6, 7, 8, 1, 2, 3, 4, 10, 9>>}

BondBetween(mol, x, y) ==
    CHOOSE b \in Bonds(mol) : {mol.ba[b], mol.bb[b]} = {x, y}

(* the copy of mol whose atom p[a] is mol's atom a *)
Permute(mol, p) ==
    LET inv == [x \in 1..Len(p) |-> CHOOSE a \in 1..Len(p) : p[a] = x]
        src(b) == BondBetween(mol, inv[mol.ba[b]], inv[mol.bb[b]])
    IN [mol EXCEPT !.nh  = [x \in 1..Len(p) |-> mol.nh[inv[x]]],
                   !.elem = [x \in 1..Len(p) |-> mol.elem[inv[x]]],
                   !.chg = [x \in 1..Len(p) |-> mol.chg[inv[x]]],
                   !.rad = [x \in 1..Len(p) |-> mol.rad[inv[x]]],
                   !.ord = [b \in 1..Len(mol.ord) |-> mol.ord[src(b)]],
                   !.aro = [b \in 1..Len(mol.aro) |-> mol.aro[src(b)]]]

SameSkeleton(m1, m2) == m1.topo = m2.topo

(* Atom.Match of a molecule used as a query: elements agree, and a formal charge or
   radical count the QUERY atom has (non-zero) must be the target's too *)
AtomMatch(t, ta, q, qa) ==
    /\ t.elem[ta] = q.elem[qa]
    /\ t.nh[ta] = q.nh[qa]
    /\ (q.chg[qa] # 0 => t.chg[ta] = q.chg[qa])
    /\ (q.rad[qa] # 0 => t.rad[ta] = q.rad[qa])

(* target.GetSubstructMatch(query) is non-empty *)
GetSubstructMatch(t, q) ==
    /\ SameSkeleton(t, q)
    /\ \E p \in Sym(q.topo) :
          /\ \A a \in Atoms(q) : AtomMatch(t, p[a], q, a)
          /\ \A b \in Bonds(q) :
                t.ord[BondBetween(t, p[q.ba[b]], p[q.bb[b]])] = q.ord[b]

(* is_identical: the same graph atom for atom *)
is_identical(m1, m2) ==
    ByValue2(m1, m2, LAMBDA x, y : /\ x.elem = y.elem /\ x.nh = y.nh /\ x.chg = y.chg
                                   /\ x.rad = y.rad /\ x.ord = y.ord)

(* the same structure up to a renumbering of the atoms *)
Isomorphic(m1, m2) ==
    /\ SameSkeleton(m1, m2)
    /\ \E p \in Sym(m1.topo) : is_identical(Permute(m1, p), m2)

RingAtoms(mol, ring) == UNION {{mol.ba[ring[i]], mol.bb[ring[i]]} : i \in 1..Len(ring)}

RingBonds(mol) == UNION {Range(mol.rings[r]) : r \in 1..Len(mol.rings)}

(* RDKit's aromaticity perception on the rings of the skeleton: a ring atom is
   aromatic-capable when it has an aromatic bond, or exactly one double bond and
   that one inside a ring, and no triple bond *)
AromaticCapable(mol, a) ==
    LET bs == GetBonds(mol, a)
    IN /\ \A b \in bs : mol.ord[b] # 3
       /\ \/ \E b \in bs : mol.ord[b] = 12
          \/ /\ Cardinality({b \in bs : mol.ord[b] = 2}) = 1
             /\ \A b \in bs : mol.ord[b] = 2 => b \in RingBonds(mol)

PerceivedRings(mol) ==
    {r \in 1..Len(mol.rings) :
        /\ Len(mol.rings[r]) = 6
        /\ \A a \in RingAtoms(mol, mol.rings[r]) : AromaticCapable(mol, a)}

SetAromaticity(mol) ==
    LET arb == UNION {Range(mol.rings[r]) : r \in PerceivedRings(mol)}
    IN [mol EXCEPT !.ord = [b \in 1..Len(mol.ord) |-> IF b \in arb THEN 12 ELSE mol.ord[b]],
                   !.aro = [b \in 1..Len(mol.ord) |-> b \in arb]]

(* the valence check of Sanitize: every atom keeps a whole, non-negative number of
   lone pairs, and an aromatic bond type stands only in a ring perceived aromatic *)
ValenceOK(mol) ==
    /\ \A a \in Atoms(mol) : get_lone_pair(mol, a) >= 0 /\ get_lone_pair(mol, a) % 2 = 0
    /\ \A b \in Bonds(mol) : mol.ord[b] = 12 =>
          \E r \in PerceivedRings(mol) : b \in Range(mol.rings[r])

(* mol.Sanitize(...): either raises (ok = FALSE) or leaves aromaticity perceived *)
Sanitize(mol) ==
    ByValue(mol, LAMBDA m : IF ValenceOK(m) THEN [ok |-> TRUE, mol |-> SetAromaticity(m)]
                            ELSE [ok |-> FALSE, mol |-> m])

(* the Kekule forms of mol: every aromatic bond (by type or by flag) becomes single
   or double, with exactly one double bond at each atom of these bonds that has no
   multiple bond besides them; flags are kept *)
KekuleForms(mol) ==
    LET ab == {b \in Bonds(mol) : mol.ord[b] = 12 \/ mol.aro[b]}
        at == UNION {{mol.ba[b], mol.bb[b]} : b \in ab}
        need(a) == IF \E b \in GetBonds(mol, a) \ ab : mol.ord[b] \in {2, 3} THEN 0 ELSE 1
    IN {[mol EXCEPT !.ord = [b \in 1..Len(mol.ord) |->
                        IF b \in ab THEN (IF b \in D THEN 2 ELSE 1) ELSE mol.ord[b]]] :
          D \in {X \in SUBSET ab :
                   \A a \in at :
                      Cardinality({b \in X : a \in {mol.ba[b], mol.bb[b]}}) = need(a)}}

(* molecule.Kekulize(): raises (ok = FALSE) when no form exists, else one form,
   which one being RDKit's choice (k) *)
Kekulize(mol, k) ==
    LET forms == KekuleForms(mol)
        first == CHOOSE f \in forms : TRUE
    IN IF forms = {} THEN [ok |-> FALSE, mol |-> mol]
       ELSE IF k = 0 \/ forms = {first} THEN [ok |-> TRUE, mol |-> first]
       ELSE [ok |-> TRUE, mol |-> CHOOSE f \in forms : f # first]

(* get_aromatic_rings: the six-membered rings whose bonds are all flagged aromatic *)
get_aromatic_rings(mol) ==
    SelectIdx(mol.rings, {r \in 1..Len(mol.rings) :
                            /\ Len(mol.rings[r]) = 6
                            /\ \A b \in Range(mol.rings[r]) : mol.aro[b]}, 1)

is_aromatic(mol) == \E b \in Bonds(mol) : mol.aro[b]

(* radicals sit only on atoms of aromatic rings *)
is_aryl_radical(mol, aromatic_rings) ==
    \A a \in Atoms(mol) : mol.rad[a] > 0 =>
        \E r \in 1..Len(aromatic_rings) : a \in RingAtoms(mol, aromatic_rings[r])

(* resonance.unset_aromatic_flags: a bond flagged aromatic whose type is not
   AROMATIC loses the flag *)
unset_aromatic_flags(mol) ==
    [mol EXCEPT !.aro = [b \in 1..Len(mol.ord) |-> mol.aro[b] /\ mol.ord[b] = 12]]

----------------------------------------------------------------------------
(* filtration.py: aromaticity filter and filter_structures *)

RingOrderStr(mol, ring) == [i \in 1..Len(ring) |-> get_order_str(mol.ord[ring[i]])]

(* only a structure whose six-membered rings all carry a signature counts *)
HasKekuleSignature_every_ring(mol) ==
    /\ \E r \in 1..Len(mol.rings) : Len(mol.rings[r]) = 6
    /\ \A r \in 1..Len(mol.rings) :
          Len(mol.rings[r]) = 6 =>
             RingOrderStr(mol, mol.rings[r]) \in
                {<<"S", "D", "S", "D", "S", "D">>, <<"D", "S", "D", "S", "D", "S">>}

HasKekuleSignature(mol) ==
    \E r \in 1..Len(mol.rings) :
        /\ Len(mol.rings[r]) = 6
        /\ RingOrderStr(mol, mol.rings[r]) \in
              {<<"S", "D", "S", "D", "S", "D">>, <<"D", "S", "D", "S", "D", "S">>}

aromaticity_filtration(ml0, feat) ==
    LET ml == [i \in 1..Len(ml0) |-> unset_aromatic_flags(ml0[i])]
        flist == SelectIdx(ml, {i \in 1..Len(ml) : is_aromatic(ml[i])}, 1)
        other_list == SelectIdx(ml, {i \in 1..Len(ml) : ~is_aromatic(ml[i])}, 1)
    IN IF ~feat.isPolycyclicAromatic
       THEN flist \o
            SelectIdx(other_list, {i \in 1..Len(other_list) :
                                      ~HasKekuleSignature(other_list[i])}, 1)
       ELSE flist

multiplicity_filtration(ml) ==
    SelectIdx(ml, {i \in 1..Len(ml) : get_radical_count(ml[i]) = get_radical_count(ml[1])}, 1)

(* the list after the multiplicity, octet and charge filters *)
charge_stage(ml, allow_expanded_octet) ==
    LET kept == multiplicity_filtration(ml)
    IN charge_filtration(octet_filtration(kept, get_octet_deviation_list(kept, allow_expanded_octet)))

(* ... and after the aromaticity filter, applied for an aromatic feature snapshot *)
filter_stage(ml, allow_expanded_octet, feat) ==
    IF ~feat.none /\ feat.is_aromatic
    THEN aromaticity_filtration(charge_stage(ml, allow_expanded_octet), feat)
    ELSE charge_stage(ml, allow_expanded_octet)

(* mol_list[0] as the re-insertion step sees it: the seed object, whose aromatic
   flags were unset in place if it went through the aromaticity filter *)
seed_object(ml, allow_expanded_octet, feat) ==
    IF /\ ~feat.none /\ feat.is_aromatic
       /\ \E i \in 1..Len(charge_stage(ml, allow_expanded_octet)) :
             charge_stage(ml, allow_expanded_octet)[i] = ml[1]
    THEN unset_aromatic_flags(ml[1])
    ELSE ml[1]

(* the final reordering: the first survivor matching the seed goes to the front,
   else the seed itself is inserted at the front *)
reorder_front_append(flist, first_mol) ==
    LET hits == {i \in 1..Len(flist) : GetSubstructMatch(flist[i], first_mol)}
    IN IF hits = {} THEN flist \o <<first_mol>>
       ELSE LET k == MinOf(hits)
            IN <<flist[k]>> \o SelectIdx(flist, 1..Len(flist) \ {k}, 1)

reorder_front_nopop(flist, first_mol) ==
    LET hits == {i \in 1..Len(flist) : GetSubstructMatch(flist[i], first_mol)}
    IN IF hits = {} THEN <<first_mol>> \o flist
       ELSE <<flist[MinOf(hits)]>> \o flist

reorder_front(flist, first_mol) ==
    LET hits == {i \in 1..Len(flist) : GetSubstructMatch(flist[i], first_mol)}
    IN IF hits = {} THEN <<first_mol>> \o flist
       ELSE LET k == MinOf(hits)
            IN <<flist[k]>> \o SelectIdx(flist, 1..Len(flist) \ {k}, 1)

(* filter_structures: ok = FALSE stands for the raised ResonanceError *)
filter_structures(ml, allow_expanded_octet, feat) ==
    LET flist == filter_stage(ml, allow_expanded_octet, feat)
    IN IF flist = << >> THEN [ok |-> FALSE, list |-> << >>]
       ELSE [ok |-> TRUE,
             list |-> reorder_front(flist, seed_object(ml, allow_expanded_octet, feat))]

----------------------------------------------------------------------------
(* Input graphs *)

Chain3(elem, nh, chg, rad, ord) ==
    [topo |-> "chain3", elem |-> elem, nh |-> nh, chg |-> chg, rad |-> rad,
     ba |-> <<1, 2>>, bb |-> <<2, 3>>, ord |-> ord, aro |-> <<FALSE, FALSE>>,
     rings |-> << >>]

Ring6(nh, rad, ord, aro) ==
    [topo |-> "ring6", elem |-> <<6, 6, 6, 6, 6, 6>>, nh |-> nh,
     chg |-> <<0, 0, 0, 0, 0, 0>>, rad |-> rad,
     ba |-> <<1, 2, 3, 4, 5, 6>>, bb |-> <<2, 3, 4, 5, 6, 1>>, ord |-> ord,
     aro |-> aro, rings |-> <<<<1, 2, 3, 4, 5, 6>>>>]

(* a six-ring of carbons (atoms 1..6) with a CH2 group (atom 7) on atom 1 *)
Benzyl(nh, rad, ord, aro) ==
    [topo |-> "benzyl", elem |-> <<6, 6, 6, 6, 6, 6, 6>>, nh |-> nh,
     chg |-> <<0, 0, 0, 0, 0, 0, 0>>, rad |-> rad,
     ba |-> <<1, 2, 3, 4, 5, 6, 1>>, bb |-> <<2, 3, 4, 5, 6, 1, 7>>, ord |-> ord,
     aro |-> aro, rings |-> <<<<1, 2, 3, 4, 5, 6>>>>]

(* two fused six-rings: CH atoms 1..4 and 5..8, fusion atoms 9 and 10 *)
Naph(ord, aro) ==
    [topo |-> "naph", elem |-> [i \in 1..10 |-> 6],
     nh |-> <<1, 1, 1, 1, 1, 1, 1, 1, 0, 0>>,
     chg |-> [i \in 1..10 |-> 0], rad |-> [i \in 1..10 |-> 0],
     ba |-> <<1, 2, 3, 4, 10, 5, 6, 7, 8, 9, 9>>,
     bb |-> <<2, 3, 4, 10, 5, 6, 7, 8, 9, 1, 10>>, ord |-> ord,
     aro |-> aro, rings |-> <<<<1, 2, 3, 4, 11, 10>>, <<5, 6, 7, 8, 9, 11>>>>]

ChargeRange == -2..2

(* every valid structure of a three-atom chain with the given elements, hydrogens
   and net charge *)
ChainStructures(elem, nh, q) ==
    {m \in {Chain3(elem, nh, c, r, o) :
                c \in [1..3 -> ChargeRange], r \in [1..3 -> 0..1], o \in [1..2 -> 1..3]} :
        GetFormalCharge(m) = q /\ ValenceOK(m)}

U1 == ChainStructures(<<7, 7, 7>>, <<0, 0, 0>>, 1)
U2 == ChainStructures(<<7, 6, 8>>, <<2, 1, 0>>, 0)
U3 == ChainStructures(<<8, 7, 8>>, <<0, 0, 0>>, 0)

BenzeneForms ==
    LET H == <<1, 1, 1, 1, 1, 1>>
        R == <<0, 0, 0, 0, 0, 0>>
        F == [i \in 1..6 |-> FALSE]
        T == [i \in 1..6 |-> TRUE]
        SD == <<1, 2, 1, 2, 1, 2>>
        DS == <<2, 1, 2, 1, 2, 1>>
    IN {Ring6(H, R, [i \in 1..6 |-> 12], T), Ring6(H, R, SD, F), Ring6(H, R, DS, F),
        Ring6(H, R, SD, T), Ring6(H, R, DS, T)}

(* benzyne: ring C6H4 in its alkyne and cumulene forms, two numberings each *)
BenzyneForms ==
    LET R == <<0, 0, 0, 0, 0, 0>>
        F == [i \in 1..6 |-> FALSE]
    IN {Ring6(<<0, 0, 1, 1, 1, 1>>, R, <<3, 1, 2, 1, 2, 1>>, F),
        Ring6(<<0, 0, 1, 1, 1, 1>>, R, <<2, 2, 1, 2, 1, 2>>, F),
        Ring6(<<1, 0, 0, 1, 1, 1>>, R, <<1, 3, 1, 2, 1, 2>>, F),
        Ring6(<<1, 0, 0, 1, 1, 1>>, R, <<2, 2, 2, 1, 2, 1>>, F)}

----------------------------------------------------------------------------
(* resonance_rmg.py: analyze_molecule *)

NoFeatures ==
    [none |-> TRUE, is_radical |-> FALSE, is_cyclic |-> FALSE, is_aromatic |-> FALSE,
     isPolycyclicAromatic |-> FALSE, is_aryl_radical |-> FALSE,
     hasNitrogenVal5 |-> FALSE, hasLonePairs |-> FALSE]

analyze_molecule(mol) ==
    LET aromatic_rings == IF is_cyclic(mol) THEN get_aromatic_rings(mol) ELSE << >>
    IN [none |-> FALSE,
        is_radical |-> is_radical(mol),
        is_cyclic |-> is_cyclic(mol),
        is_aromatic |-> Len(aromatic_rings) > 0,
        isPolycyclicAromatic |-> Len(aromatic_rings) > 1,
        is_aryl_radical |-> /\ is_cyclic(mol) /\ is_radical(mol) /\ Len(aromatic_rings) > 0
                            /\ is_aryl_radical(mol, aromatic_rings),
        hasNitrogenVal5 |-> \E a \in Atoms(mol) : mol.elem[a] = 7 /\ get_lone_pair(mol, a) = 0,
        hasLonePairs |-> \E a \in Atoms(mol) : get_lone_pair(mol, a) > 0]

----------------------------------------------------------------------------
(* pathfinder.py: the delocalization path finders.  A path lists Atom and Bond
   OBJECTS (and the direction, an int), not indices. *)

AtomObj(a) == [obj |-> "Atom", idx |-> a]

BondObj(b) == [obj |-> "Bond", idx |-> b]

IntObj(n) == [obj |-> "int", idx |-> n]

(* atom.GetBonds() in bond-index order; bonds to hydrogens lead to no path in any
   finder and are left out *)
BondSeq(mol, a) == SelectIdx([b \in 1..Len(mol.ord) |-> b], GetBonds(mol, a), 1)

is_atom_able_to_gain_lone_pair(mol, a) ==
    ByValue(a, LAMBDA atom :
        \/ mol.elem[atom] \in {7, 16} /\ LonePairIn(mol, atom, {0, 1, 2})
        \/ mol.elem[atom] = 8 /\ LonePairIn(mol, atom, {1, 2})
        \/ mol.elem[atom] = 6 /\ LonePairIn(mol, atom, {0}))

is_atom_able_to_lose_lone_pair(mol, a) ==
    ByValue(a, LAMBDA atom :
        \/ mol.elem[atom] \in {7, 16} /\ LonePairIn(mol, atom, {1, 2, 3})
        \/ mol.elem[atom] = 8 /\ LonePairIn(mol, atom, {2, 3})
        \/ mol.elem[atom] = 6 /\ LonePairIn(mol, atom, {1}))

(* "atom1 is not atom3" compares two wrapper objects and is always true, so the
   path may come back to atom1 over the bond it left by *)
find_allyl_delocalization_paths(mol, atom1) ==
    IF mol.rad[atom1] <= 0 THEN << >>
    ELSE LET bs == BondSeq(mol, atom1)
         IN Concat([i \in 1..Len(bs) |->
                LET bond12 == bs[i]
                    atom2 == GetOtherAtom(mol, bond12, atom1)
                    bs2 == BondSeq(mol, atom2)
                IN IF mol.ord[bond12] \in {1, 2}
                   THEN Concat([j \in 1..Len(bs2) |->
                            LET bond23 == bs2[j]
                                atom3 == GetOtherAtom(mol, bond23, atom2)
                            IN IF mol.ord[bond23] \in {2, 3}
                               THEN <<<<AtomObj(atom1), AtomObj(atom2), AtomObj(atom3),
                                        BondObj(bond12), BondObj(bond23)>>>>
                               ELSE << >>])
                   ELSE << >>])

find_lone_pair_multiple_bond_paths(mol, atom1) ==
    IF \/ get_lone_pair(mol, atom1) <= 0
       \/ ~is_atom_able_to_lose_lone_pair(mol, atom1)
       \/ mol.elem[atom1] = 6
    THEN << >>
    ELSE LET bs == BondSeq(mol, atom1)
         IN Concat([i \in 1..Len(bs) |->
                LET bond12 == bs[i]
                    atom2 == GetOtherAtom(mol, bond12, atom1)
                    bs2 == BondSeq(mol, atom2)
                IN IF /\ (mol.elem[atom1] # 16 \/ mol.elem[atom2] # 16)
                      /\ mol.ord[bond12] \in {1, 2}
                   THEN Concat([j \in 1..Len(bs2) |->
                            LET bond23 == bs2[j]
                                atom3 == GetOtherAtom(mol, bond23, atom2)
                            IN IF /\ mol.ord[bond23] \in {2, 3}
                                  /\ (mol.elem[atom3] = 6
                                      \/ is_atom_able_to_gain_lone_pair(mol, atom3))
                               THEN <<<<AtomObj(atom1), AtomObj(atom2), AtomObj(atom3),
                                        BondObj(bond12), BondObj(bond23)>>>>
                               ELSE << >>])
                   ELSE << >>])

find_adj_lone_pair_radical_delocalization_paths(mol, atom1) ==
    IF /\ mol.rad[atom1] >= 1
       /\ \/ mol.elem[atom1] = 6 /\ LonePairIn(mol, atom1, {0})
          \/ mol.elem[atom1] = 7 /\ LonePairIn(mol, atom1, {0, 1})
          \/ mol.elem[atom1] = 8 /\ LonePairIn(mol, atom1, {1, 2})
          \/ mol.elem[atom1] = 16 /\ LonePairIn(mol, atom1, {0, 1, 2})
    THEN LET bs == BondSeq(mol, atom1)
         IN Concat([i \in 1..Len(bs) |->
                LET atom2 == GetOtherAtom(mol, bs[i], atom1)
                IN IF \/ mol.elem[atom2] = 6 /\ LonePairIn(mol, atom2, {1})
                      \/ mol.elem[atom2] = 7 /\ LonePairIn(mol, atom2, {1, 2})
                      \/ /\ mol.elem[atom2] = 8 /\ LonePairIn(mol, atom2, {2, 3})
                         /\ mol.elem[atom1] # 6
                      \/ mol.elem[atom2] = 16 /\ LonePairIn(mol, atom2, {1, 2, 3})
                   THEN <<<<AtomObj(atom1), AtomObj(atom2)>>>>
                   ELSE << >>])
    ELSE << >>

(* the finder without the clause on two sulfur atoms *)
find_adj_lone_pair_multiple_bond_delocalization_paths_any_pair(mol, atom1) ==
    IF mol.elem[atom1] = 6 THEN << >>
    ELSE LET bs == BondSeq(mol, atom1)
         IN Concat([i \in 1..Len(bs) |->
                LET bond12 == bs[i]
                    atom2 == GetOtherAtom(mol, bond12, atom1)
                IN (IF /\ mol.ord[bond12] \in {1, 2}
                       /\ is_atom_able_to_lose_lone_pair(mol, atom1)
                    THEN <<<<AtomObj(atom1), AtomObj(atom2), BondObj(bond12), IntObj(1)>>>>
                    ELSE << >>)
                   \o
                   (IF /\ mol.ord[bond12] \in {2, 3}
                       /\ is_atom_able_to_gain_lone_pair(mol, atom1)
                    THEN <<<<AtomObj(atom1), AtomObj(atom2), BondObj(bond12), IntObj(2)>>>>
                    ELSE << >>)])

find_adj_lone_pair_multiple_bond_delocalization_paths(mol, atom1) ==
    IF mol.elem[atom1] = 6 THEN << >>
    ELSE LET bs == BondSeq(mol, atom1)
         IN Concat([i \in 1..Len(bs) |->
                LET bond12 == bs[i]
                    atom2 == GetOtherAtom(mol, bond12, atom1)
                IN (IF /\ mol.ord[bond12] \in {1, 2}
                       /\ is_atom_able_to_lose_lone_pair(mol, atom1)
                       /\ ~(mol.elem[atom1] = 16 /\ mol.elem[atom2] = 16
                              /\ mol.ord[bond12] = 2)
                    THEN <<<<AtomObj(atom1), AtomObj(atom2), BondObj(bond12), IntObj(1)>>>>
                    ELSE << >>)
                   \o
                   (IF /\ mol.ord[bond12] \in {2, 3}
                       /\ is_atom_able_to_gain_lone_pair(mol, atom1)
                    THEN <<<<AtomObj(atom1), AtomObj(atom2), BondObj(bond12), IntObj(2)>>>>
                    ELSE << >>)])

find_adj_lone_pair_radical_multiple_bond_delocalization_paths(mol, atom1) ==
    IF mol.elem[atom1] = 6 THEN << >>
    ELSE LET bs == BondSeq(mol, atom1)
         IN Concat([i \in 1..Len(bs) |->
                LET bond12 == bs[i]
                    atom2 == GetOtherAtom(mol, bond12, atom1)
                IN (IF /\ mol.rad[atom2] # 0
                       /\ mol.ord[bond12] \in {1, 2}
                       /\ is_atom_able_to_lose_lone_pair(mol, atom1)
                    THEN <<<<AtomObj(atom1), AtomObj(atom2), BondObj(bond12), IntObj(1)>>>>
                    ELSE << >>)
                   \o
                   (IF /\ mol.rad[atom1] # 0
                       /\ mol.ord[bond12] \in {2, 3}
                       /\ is_atom_able_to_gain_lone_pair(mol, atom1)
                    THEN <<<<AtomObj(atom1), AtomObj(atom2), BondObj(bond12), IntObj(2)>>>>
                    ELSE << >>)])

(* at most one path: the first radical neighbour atom2 that has any charged
   single-bonded neighbour atom3 of atom1 besides it *)
find_N5dc_radical_delocalization_paths(mol, atom1) ==
    LET bs == BondSeq(mol, atom1)
        all == Concat([i \in 1..Len(bs) |->
                LET bond12 == bs[i]
                    atom2 == GetOtherAtom(mol, bond12, atom1)
                IN IF /\ mol.rad[atom2] # 0 /\ mol.ord[bond12] = 1 /\ mol.chg[atom2] = 0
                      /\ is_atom_able_to_lose_lone_pair(mol, atom2)
                   THEN Concat([j \in 1..Len(bs) |->
                            LET bond13 == bs[j]
                                atom3 == GetOtherAtom(mol, bond13, atom1)
                            IN IF /\ mol.ord[bond13] = 1 /\ mol.chg[atom3] < 0
                                  /\ is_atom_able_to_lose_lone_pair(mol, atom3)
                               THEN <<<<AtomObj(atom2), AtomObj(atom3)>>>>
                               ELSE << >>])
                   ELSE << >>])
    IN IF all = << >> THEN << >> ELSE <<all[1]>>

----------------------------------------------------------------------------
(* resonance_rmg.py: the edits of the path rules.  An edit works on a pair
   [ok, mol]: ok = FALSE once a step has raised, which the rule's except clause
   swallows. *)

Start(mol) == [ok |-> TRUE, mol |-> mol]

(* what a rule returns: [ok, arg, list].  ok = FALSE stands for an exception that
   leaves the rule; arg is the graph passed in as the call left it; list holds the
   candidates *)
Returns(mol, list) == [ok |-> TRUE, arg |-> mol, list |-> list]

Raise(r) == [r EXCEPT !.ok = FALSE]

(* structure.GetAtomWithIdx(x), structure.GetBondWithIdx(x): x must be an int *)
GetAtomWithIdx(r, x) ==
    ByValue(r, LAMBDA s : IF x.obj = "int" /\ x.idx \in Atoms(s.mol) THEN s ELSE Raise(s))

GetBondWithIdx(r, x) ==
    ByValue(r, LAMBDA s : IF x.obj = "int" /\ x.idx \in Bonds(s.mol) THEN s ELSE Raise(s))

increment_order(r, b) ==
    ByValue(r, LAMBDA s : IF s.ok /\ s.mol.ord[b] \in {1, 2}
                          THEN [s EXCEPT !.mol.ord[b] = @ + 1] ELSE Raise(s))

decrement_order(r, b) ==
    ByValue(r, LAMBDA s : IF s.ok /\ s.mol.ord[b] \in {2, 3}
                          THEN [s EXCEPT !.mol.ord[b] = @ - 1] ELSE Raise(s))

increment_radical(r, a) ==
    ByValue(r, LAMBDA s : IF s.ok THEN [s EXCEPT !.mol.rad[a] = @ + 1] ELSE s)

decrement_radical(r, a) ==
    ByValue(r, LAMBDA s : IF s.ok /\ s.mol.rad[a] >= 1
                          THEN [s EXCEPT !.mol.rad[a] = @ - 1] ELSE Raise(s))

(* update_charge(atom, lone_pairs), lp2 being twice the lone pairs: the charge that
   balances the atom's electrons; a fractional charge cannot be set *)
update_charge(r, a, lp2) ==
    ByValue(r, LAMBDA s :
        IF s.ok /\ lp2 % 2 = 0
        THEN [s EXCEPT !.mol.chg[a] = GetNOuterElecs(s.mol.elem[a]) - s.mol.rad[a]
                                          - get_total_bond_order(s.mol, a) - lp2]
        ELSE Raise(s))

SanitizeStep(r) == ByValue(r, LAMBDA s : IF s.ok THEN Sanitize(s.mol) ELSE s)

(* "except BaseException: pass / else: structures.append(structure)" *)
structures_of(r) == ByValue(r, LAMBDA s : IF s.ok THEN <<s.mol>> ELSE << >>)

(* the structures of the paths whose edit went through, atom by atom *)
PathStructures(mol, Paths(_, _), Edit(_, _)) ==
    Concat([a \in 1..Len(mol.elem) |->
        ByValue(Paths(mol, a),
                LAMBDA ps : Concat([i \in 1..Len(ps) |-> structures_of(Edit(mol, ps[i]))]))])

allyl_edit(mol, p) ==
    LET r1 == decrement_radical(GetAtomWithIdx(Start(mol), p[1]), p[1].idx)
        r2 == increment_radical(GetAtomWithIdx(r1, p[3]), p[3].idx)
        r3 == increment_order(GetBondWithIdx(r2, p[4]), p[4].idx)
        r4 == decrement_order(GetBondWithIdx(r3, p[5]), p[5].idx)
    IN SanitizeStep(r4)

generate_allyl_delocalization_resonance_structures(mol) ==
    IF ~is_radical(mol) THEN Returns(mol, << >>)
    ELSE Returns(mol, PathStructures(mol, find_allyl_delocalization_paths, allyl_edit))

lone_pair_multiple_bond_edit(mol, p) ==
    LET r0 == GetAtomWithIdx(Start(mol), p[1])
        lone_pair1 == get_lone_pair(mol, p[1].idx)
        lone_pair3 == get_lone_pair(mol, p[3].idx)
        r1 == IF lone_pair1 <= 0 THEN Raise(r0) ELSE GetAtomWithIdx(r0, p[3])
        r2 == increment_order(GetBondWithIdx(r1, p[4]), p[4].idx)
        r3 == decrement_order(GetBondWithIdx(r2, p[5]), p[5].idx)
        r4 == update_charge(r3, p[1].idx, lone_pair1 - 2)
        r5 == update_charge(r4, p[3].idx, lone_pair3 + 2)
    IN SanitizeStep(r5)

lone_pair_paths(mol, a) ==
    IF get_lone_pair(mol, a) >= 2 THEN find_lone_pair_multiple_bond_paths(mol, a) ELSE << >>

generate_lone_pair_multiple_bond_resonance_structures(mol) ==
    Returns(mol, PathStructures(mol, lone_pair_paths, lone_pair_multiple_bond_edit))

adj_lone_pair_radical_edit(mol, p) ==
    LET r0 == GetAtomWithIdx(Start(mol), p[2])
        lone_pair2 == get_lone_pair(mol, p[2].idx)
        lone_pair1 == get_lone_pair(mol, p[1].idx)
        r1 == IF lone_pair2 <= 0 THEN Raise(r0) ELSE GetAtomWithIdx(r0, p[1])
        r2 == increment_radical(decrement_radical(r1, p[1].idx), p[2].idx)
        r3 == update_charge(r2, p[1].idx, lone_pair1 + 2)
        r4 == update_charge(r3, p[2].idx, lone_pair2 - 2)
    IN SanitizeStep(r4)

generate_adj_lone_pair_radical_resonance_structures(mol) ==
    IF ~is_radical(mol) THEN Returns(mol, << >>)
    ELSE Returns(mol, PathStructures(mol, find_adj_lone_pair_radical_delocalization_paths,
                                     adj_lone_pair_radical_edit))

(* atom1.decrement_lone_pairs() and atom2.update_charge(...) are attributes an
   RDKit atom does not have: every edit that gets that far raises *)
adj_lone_pair_multiple_bond_edit(mol, p) ==
    LET r0 == GetAtomWithIdx(GetAtomWithIdx(Start(mol), p[1]), p[2])
        lone_pair1 == get_lone_pair(mol, p[1].idx)
        r1 == GetBondWithIdx(r0, p[3])
        r2 == IF p[4].idx = 1
              THEN Raise(update_charge(increment_order(r1, p[3].idx), p[1].idx, lone_pair1 - 2))
              ELSE update_charge(decrement_order(r1, p[3].idx), p[1].idx, lone_pair1 + 2)
        r3 == Raise(r2)
        r4 == SanitizeStep(r3)
    IN [r4 EXCEPT !.ok = r4.ok /\ GetFormalCharge(r4.mol) = 0]

generate_adj_lone_pair_multiple_bond_resonance_structures(mol) ==
    Returns(mol, PathStructures(mol, find_adj_lone_pair_multiple_bond_delocalization_paths,
                                adj_lone_pair_multiple_bond_edit))

adj_lone_pair_radical_multiple_bond_edit(mol, p) ==
    LET r0 == GetBondWithIdx(GetAtomWithIdx(GetAtomWithIdx(Start(mol), p[1]), p[2]), p[3])
        lone_pair_1 == get_lone_pair(mol, p[1].idx)
        lone_pair_2 == get_lone_pair(mol, p[2].idx)
        r1 == IF p[4].idx = 1
              THEN decrement_radical(
                     update_charge(increment_radical(increment_order(r0, p[3].idx), p[1].idx),
                                   p[1].idx, lone_pair_1 - 2), p[2].idx)
              ELSE increment_radical(
                     update_charge(decrement_radical(decrement_order(r0, p[3].idx), p[1].idx),
                                   p[1].idx, lone_pair_1 + 2), p[2].idx)
        r2 == update_charge(r1, p[2].idx, lone_pair_2)
    IN SanitizeStep(r2)

generate_adj_lone_pair_radical_multiple_bond_resonance_structures(mol) ==
    IF ~is_radical(mol) THEN Returns(mol, << >>)
    ELSE Returns(mol,
            PathStructures(mol, find_adj_lone_pair_radical_multiple_bond_delocalization_paths,
                           adj_lone_pair_radical_multiple_bond_edit))

(* atom.GetAtomicNum == 5 compares the method object itself with 5: never equal,
   and the conjuncts after it are not evaluated *)
N5dc_center(mol, a) ==
    /\ FALSE
    /\ mol.chg[a] = 1 /\ mol.rad[a] = 0
    /\ Cardinality(GetBonds(mol, a)) + mol.nh[a] = 3

(* the edits go to mol itself, not to the copy that is appended *)
N5dc_edit(mol, p) ==
    LET r0 == GetAtomWithIdx(GetAtomWithIdx(Start(mol), p[1]), p[2])
        lone_pair2 == get_lone_pair(mol, p[1].idx)
        lone_pair3 == get_lone_pair(mol, p[2].idx)
        r1 == increment_radical(decrement_radical(r0, p[1].idx), p[2].idx)
    IN update_charge(update_charge(r1, p[1].idx, lone_pair2 + 2), p[2].idx, lone_pair3 - 2)

(* acc = [ok, arg, list]: the argument as the atoms seen so far left it, and the
   structures appended *)
RECURSIVE N5dc_from(_, _)
N5dc_from(a, acc) ==
    IF a > Len(acc.arg.elem) THEN acc
    ELSE LET paths == IF N5dc_center(acc.arg, a)
                      THEN find_N5dc_radical_delocalization_paths(acc.arg, a) ELSE << >>
         IN IF paths = << >> THEN N5dc_from(a + 1, acc)
            ELSE LET e == N5dc_edit(acc.arg, paths[1])
                 IN N5dc_from(a + 1,
                        [ok |-> TRUE, arg |-> e.mol,
                         list |-> IF e.ok THEN acc.list \o <<acc.arg>> ELSE acc.list])

generate_N5dc_radical_resonance_structures(mol) ==
    N5dc_from(1, Returns(mol, << >>))

(* s rotated so that its element ind + 1 comes first *)
Rot(s, ind) == SubSeq(s, ind + 1, Len(s)) \o SubSeq(s, 1, ind)

(* str.index of the first occurrence of sub in s (0-based), Len(s) if there is none *)
IndexOf(s, sub) ==
    LET hits == {i \in 0..(Len(s) - Len(sub)) : SubSeq(s, i + 1, i + Len(sub)) = sub}
    IN IF hits = {} THEN Len(s) ELSE MinOf(hits)

Count(s, c) == Cardinality({i \in 1..Len(s) : s[i] = c})

aryne_rotation_first_only(bond_orders) ==
    IF Count(bond_orders, "T") = 1 THEN IndexOf(bond_orders, <<"T">>)
    ELSE IF Count(bond_orders, "D") = 4
            /\ IndexOf(bond_orders, <<"D", "D", "D">>) < Len(bond_orders)
    THEN IndexOf(bond_orders, <<"D", "D", "D">>)
    ELSE 0

(* the rotation the aryne rule applies to a ring before it compares patterns *)
aryne_rotation(bond_orders) ==
    IF Count(bond_orders, "T") = 1 THEN IndexOf(bond_orders, <<"T">>)
    ELSE IF Count(bond_orders, "D") = 4
    THEN (IF IndexOf(bond_orders, <<"D", "D", "D">>) < Len(bond_orders)
          THEN IndexOf(bond_orders, <<"D", "D", "D">>)
          ELSE IF SubSeq(bond_orders, 1, 2) = <<"D", "D">> /\ bond_orders[6] = "D" THEN 5
          ELSE IF bond_orders[1] = "D" /\ SubSeq(bond_orders, 5, 6) = <<"D", "D">> THEN 4
          ELSE 0)
    ELSE 0

(* only the alkyne form is rewritten *)
aryne_new_orders_alkyne_only(rotated) ==
    IF Count(rotated, "T") = 1 /\ rotated = <<"T", "S", "D", "S", "D", "S">>
    THEN <<2, 2, 1, 2, 1, 2>>
    ELSE << >>

aryne_new_orders(rotated) ==
    IF Count(rotated, "T") = 1 /\ rotated = <<"T", "S", "D", "S", "D", "S">>
    THEN <<2, 2, 1, 2, 1, 2>>
    ELSE IF Count(rotated, "T") # 1 /\ Count(rotated, "D") = 4
            /\ rotated = <<"D", "D", "D", "S", "D", "S">>
    THEN <<1, 3, 1, 2, 1, 2>>
    ELSE << >>

(* the ring's bonds, rotated by ind, set to new_orders on a copy of mol *)
aryne_new_mol(mol, bond_list, new_orders) ==
    [mol EXCEPT !.ord = [b \in 1..Len(mol.ord) |->
                            IF \E i \in 1..6 : bond_list[i] = b
                            THEN new_orders[CHOOSE i \in 1..6 : bond_list[i] = b]
                            ELSE mol.ord[b]]]

generate_aryne_resonance_structures(mol) ==
    ByValue(SelectIdx(mol.rings, {r \in 1..Len(mol.rings) : Len(mol.rings[r]) = 6}, 1),
      LAMBDA rings :
        Returns(mol, Concat([r \in 1..Len(rings) |->
          ByValue(RingOrderStr(mol, rings[r]), LAMBDA bond_orders :
          ByValue(aryne_rotation(bond_orders), LAMBDA ind :
          ByValue(Rot(rings[r], ind), LAMBDA bond_list :
          ByValue(aryne_new_orders(Rot(bond_orders, ind)), LAMBDA new_orders :
            IF new_orders = << >> THEN << >>
            ELSE structures_of(Sanitize(aryne_new_mol(mol, bond_list, new_orders)))))))])))

generate_kekule_structure(mol, k) ==
    IF ~is_aromatic(mol) THEN Returns(mol, << >>)
    ELSE Returns(mol, structures_of(Kekulize(mol, k)))

NoneBonds == [none |-> TRUE, rings |-> << >>]

(* what the rule hands back once the bond types are set (typed) and Sanitize has
   run (san): with copy = FALSE the bond types are set on mol itself, and stay set
   when Sanitize raises *)
aromatic_result(mol, typed, san, copy) ==
    [ok |-> TRUE,
     arg |-> IF copy THEN mol ELSE IF san.ok THEN san.mol ELSE typed,
     list |-> structures_of(san)]

(* "bond.SetBondType(Chem.BondType.AROMATIC)" on every bond of the rings *)
aromatic_typed(mol, rings) ==
    [mol EXCEPT !.ord = [b \in 1..Len(mol.ord) |->
                            IF \E r \in 1..Len(rings) : b \in Range(rings[r])
                            THEN 12 ELSE mol.ord[b]]]

generate_aromatic_resonance_structure(mol, aromatic_bonds, copy) ==
    ByValue(IF aromatic_bonds.none THEN get_aromatic_rings(mol) ELSE aromatic_bonds.rings,
      LAMBDA rings :
        IF rings = << >> THEN Returns(mol, << >>)
        ELSE ByValue(aromatic_typed(mol, rings), LAMBDA typed :
             ByValue(Sanitize(typed), LAMBDA san : aromatic_result(mol, typed, san, copy))))

(* _clar_optimization: with no aromatic ring it returns no solution; with one, the
   sort key reads atom.id, which no ring member has, and the solver name lpsolve is
   not defined: it raises before any problem is solved *)
_clar_optimization(mol) ==
    [ok |-> get_aromatic_rings(mol) = << >>, output |-> << >>]

generate_clar_structures_notry(mol) ==
    IF ~is_cyclic(mol) THEN Returns(mol, << >>)
    ELSE [ok |-> _clar_optimization(mol).ok, arg |-> mol,
          list |-> _clar_optimization(mol).output]

(* with no solution to apply, the list of Clar structures stays empty *)
generate_clar_structures(mol) ==
    IF ~is_cyclic(mol) THEN Returns(mol, << >>)
    ELSE IF ~_clar_optimization(mol).ok THEN Returns(mol, << >>)
    ELSE Returns(mol, _clar_optimization(mol).output)

----------------------------------------------------------------------------
(* resonance_rmg.py: the expansion engine _generate_resonance_structures *)

(* the duplicate test of the engine: mol is a worklist member, new_mol a candidate *)
is_duplicate(mol, new_mol, keep_isomorphic) ==
    ByValue2(mol, new_mol, LAMBDA t, q : IF ~keep_isomorphic THEN GetSubstructMatch(t, q)
                                         ELSE is_identical(t, q))

(* as append_unique, a candidate being tested against the members of seen only *)
RECURSIVE append_unseen(_, _, _, _, _)
append_unseen(seen, ml, new_mol_list, j, keep_isomorphic) ==
    IF j > Len(new_mol_list) THEN ml
    ELSE append_unseen(seen,
            IF \E i \in 1..Len(seen) : is_duplicate(seen[i], new_mol_list[j], keep_isomorphic)
            THEN ml ELSE Append(ml, new_mol_list[j]),
            new_mol_list, j + 1, keep_isomorphic)

(* the candidates are tested against the worklist as it was before the batch *)
append_unique_batch_blind(ml, new_mol_list, j, keep_isomorphic) ==
    append_unseen(ml, ml, new_mol_list, j, keep_isomorphic)

(* "for new_mol in new_mol_list: ... else: mol_list.append(new_mol)" *)
RECURSIVE append_unique(_, _, _, _)
append_unique(ml, new_mol_list, j, keep_isomorphic) ==
    IF j > Len(new_mol_list) THEN ml
    ELSE ByValue(
            IF \E i \in 1..Len(ml) : is_duplicate(ml[i], new_mol_list[j], keep_isomorphic)
            THEN ml ELSE Append(ml, new_mol_list[j]),
            LAMBDA appended : append_unique(appended, new_mol_list, j + 1, keep_isomorphic))

remove_charge_mismatch_none(ml) == ml

(* the check after the scan: members after the first whose net charge is not the
   first member's are removed *)
remove_charge_mismatch(ml) ==
    SelectIdx(ml, {i \in 1..Len(ml) :
                     i = 1 \/ GetFormalCharge(ml[i]) = GetFormalCharge(ml[1])}, 1)

(* the state of a pass when it starts on ml; index counts from 0 as in the code *)
start_pass(ml) ==
    [ok |-> TRUE, mol_list |-> ml, index |-> 0,
     min_octet_deviation |-> MinOf(Range(get_octet_deviation_list(ml, TRUE))),
     min_charge_span |-> MinOf(Range(get_charge_span_list(ml)))]

RECURSIVE apply_method(_, _, _)
RECURSIVE RunPass(_, _, _, _)

(* new_mol_list.extend(r) for the return r of a method; ok = FALSE once a method
   has raised *)
extend(acc, r) == [ok |-> r.ok, arg |-> r.arg, list |-> acc.list \o r.list]

(* "for method in method_list: new_mol_list.extend(method(molecule))" *)
RECURSIVE apply_methods(_, _, _, _)
apply_methods(methods, i, acc, k) ==
    IF i > Len(methods) \/ ~acc.ok THEN acc
    ELSE ByValue(extend(acc, apply_method(methods[i], acc.arg, k)),
                 LAMBDA extended : apply_methods(methods, i + 1, extended, k))

(* no on-the-fly filtration: every molecule is extended *)
within_slack_always(st, molecule) == TRUE

(* the on-the-fly filtration: is molecule extended? *)
within_slack(st, molecule) ==
    /\ get_octet_deviation(molecule, TRUE) <= st.min_octet_deviation + 4
    /\ get_charge_span(molecule) <= st.min_charge_span + 1

(* the pass after the methods have returned r for the member at index: minima
   tightened, new structures appended if unique *)
scan_merge(st, r, keep_isomorphic) ==
    LET molecule == st.mol_list[st.index + 1]
        octet_deviation == get_octet_deviation(molecule, TRUE)
        charge_span == get_charge_span(molecule)
    IN [ok |-> r.ok,
        mol_list |-> append_unique([st.mol_list EXCEPT ![st.index + 1] = r.arg],
                                   r.list, 1, keep_isomorphic),
        index |-> st.index,
        min_octet_deviation |->
            IF within_slack(st, molecule) /\ octet_deviation < st.min_octet_deviation
            THEN octet_deviation ELSE st.min_octet_deviation,
        min_charge_span |->
            IF within_slack(st, molecule) /\ charge_span < st.min_charge_span
            THEN charge_span ELSE st.min_charge_span]

(* one turn of the while loop, up to "index += 1" *)
scan_body(st, methods, keep_isomorphic, k) ==
    ByValue(IF within_slack(st, st.mol_list[st.index + 1])
            THEN apply_methods(methods, 1, Returns(st.mol_list[st.index + 1], << >>), k)
            ELSE Returns(st.mol_list[st.index + 1], << >>),
            LAMBDA r : scan_merge(st, r, keep_isomorphic))

scan_step(st, methods, keep_isomorphic, k) ==
    [scan_body(st, methods, keep_isomorphic, k) EXCEPT !.index = @ + 1]

RunPass(st, methods, keep_isomorphic, k) ==
    IF ~st.ok THEN st
    ELSE IF st.index >= Len(st.mol_list)
    THEN [st EXCEPT !.mol_list = remove_charge_mismatch(st.mol_list)]
    ELSE ByValue(scan_step(st, methods, keep_isomorphic, k),
                 LAMBDA next_st : RunPass(next_st, methods, keep_isomorphic, k))

_generate_resonance_structures(ml, methods, keep_isomorphic, k) ==
    ByValue(start_pass(ml), LAMBDA st : RunPass(st, methods, keep_isomorphic, k))

num_aromatic(m) == Len(get_aromatic_rings(m))

(* the members of kekule_list with num aromatic rings, aromatized in place, those
   that match an earlier one left out *)
aromatized(kekule_list, num) ==
    ByValue(Concat([i \in 1..Len(kekule_list) |->
                IF num_aromatic(kekule_list[i]) = num
                THEN generate_aromatic_resonance_structure(kekule_list[i],
                         [none |-> FALSE, rings |-> get_aromatic_rings(kekule_list[i])],
                         FALSE).list
                ELSE << >>]),
            LAMBDA results : append_unique(<< >>, results, 1, FALSE))

(* "for num in arom_options: ... if new_mol_list: break" *)
most_aromatic(kekule_list) ==
    ByValue({num \in {num_aromatic(kekule_list[i]) : i \in 1..Len(kekule_list)} :
                aromatized(kekule_list, num) # << >>},
            LAMBDA found : IF found = {} THEN << >> ELSE aromatized(kekule_list, MaxOf(found)))

(* the function once the features are known and Sanitize has run on the copy *)
optimal_on_copy(mol, feat, san, k) ==
    IF ~feat.is_cyclic THEN [ok |-> TRUE, molecule |-> mol, list |-> << >>]
    ELSE IF ~san.ok THEN [ok |-> FALSE, molecule |-> mol, list |-> << >>]
    ELSE [ok |-> TRUE, molecule |-> san.mol,
          list |-> ByValue(
                      _generate_resonance_structures(<<san.mol>>,
                          <<"generate_aryne_resonance_structures">>
                          \o (IF feat.is_radical /\ ~feat.is_aryl_radical
                              THEN <<"generate_allyl_delocalization_resonance_structures">>
                              ELSE << >>),
                          FALSE, k).mol_list,
                      most_aromatic)]

(* generate_optimal_aromatic_resonance_structures on its working copy molecule:
   [ok, molecule, list], ok = FALSE when the first Sanitize raises *)
optimal_aromatic_core(mol, feat0, k) ==
    ByValue(Sanitize(mol), LAMBDA san :
    ByValue(IF feat0.none THEN analyze_molecule(mol) ELSE feat0, LAMBDA feat :
        optimal_on_copy(mol, feat, san, k)))

(* the return of a rule that worked as c says and left its argument as arg *)
rule_result(c, arg) == [ok |-> c.ok, arg |-> arg, list |-> c.list]

in_place_result(c) == rule_result(c, c.molecule)

generate_optimal_aromatic_resonance_structures_nocopy(mol, feat0, k) ==
    ByValue(optimal_aromatic_core(mol, feat0, k), in_place_result)

(* the work is done on molecule = mol.Copy(): mol itself is left as it was *)
generate_optimal_aromatic_resonance_structures(mol, feat0, k) ==
    ByValue(optimal_aromatic_core(mol, feat0, k), LAMBDA c : rule_result(c, mol))

(* method(molecule) for the rule of that name *)
apply_method(name, mol, k) ==
    CASE name = "generate_allyl_delocalization_resonance_structures" ->
              generate_allyl_delocalization_resonance_structures(mol)
      [] name = "generate_lone_pair_multiple_bond_resonance_structures" ->
              generate_lone_pair_multiple_bond_resonance_structures(mol)
      [] name = "generate_adj_lone_pair_radical_resonance_structures" ->
              generate_adj_lone_pair_radical_resonance_structures(mol)
      [] name = "generate_adj_lone_pair_multiple_bond_resonance_structures" ->
              generate_adj_lone_pair_multiple_bond_resonance_structures(mol)
      [] name = "generate_adj_lone_pair_radical_multiple_bond_resonance_structures" ->
              generate_adj_lone_pair_radical_multiple_bond_resonance_structures(mol)
      [] name = "generate_N5dc_radical_resonance_structures" ->
              generate_N5dc_radical_resonance_structures(mol)
      [] name = "generate_optimal_aromatic_resonance_structures" ->
              generate_optimal_aromatic_resonance_structures(mol, NoFeatures, k)
      [] name = "generate_aryne_resonance_structures" ->
              generate_aryne_resonance_structures(mol)
      [] name = "generate_kekule_structure" ->
              generate_kekule_structure(mol, k)
      [] name = "generate_clar_structures" ->
              generate_clar_structures(mol)
      [] name = "generate_aromatic_resonance_structure" ->
              generate_aromatic_resonance_structure(mol, NoneBonds, TRUE)

----------------------------------------------------------------------------
(* resonance_rmg.py: populate_resonance_algorithms and generate_resonance_structures *)

(* the 3-atom lone-pair rule selected for aromatic species too *)
populate_resonance_algorithms_aromatic_too(feat) ==
    IF feat.none
    THEN <<"generate_allyl_delocalization_resonance_structures",
           "generate_lone_pair_multiple_bond_resonance_structures",
           "generate_adj_lone_pair_radical_resonance_structures",
           "generate_adj_lone_pair_multiple_bond_resonance_structures",
           "generate_adj_lone_pair_radical_multiple_bond_resonance_structures",
           "generate_N5dc_radical_resonance_structures",
           "generate_optimal_aromatic_resonance_structures",
           "generate_aryne_resonance_structures",
           "generate_kekule_structure",
           "generate_clar_structures">>
    ELSE (IF feat.is_radical /\ ~feat.is_aromatic /\ ~feat.is_aryl_radical
          THEN <<"generate_allyl_delocalization_resonance_structures">> ELSE << >>)
         \o (IF feat.is_cyclic THEN <<"generate_aryne_resonance_structures">> ELSE << >>)
         \o (IF feat.hasNitrogenVal5
             THEN <<"generate_N5dc_radical_resonance_structures">> ELSE << >>)
         \o (IF feat.hasLonePairs
             THEN <<"generate_adj_lone_pair_radical_resonance_structures",
                    "generate_adj_lone_pair_multiple_bond_resonance_structures",
                    "generate_adj_lone_pair_radical_multiple_bond_resonance_structures",
                    "generate_lone_pair_multiple_bond_resonance_structures">>
             ELSE << >>)

populate_resonance_algorithms(feat) ==
    IF feat.none
    THEN <<"generate_allyl_delocalization_resonance_structures",
           "generate_lone_pair_multiple_bond_resonance_structures",
           "generate_adj_lone_pair_radical_resonance_structures",
           "generate_adj_lone_pair_multiple_bond_resonance_structures",
           "generate_adj_lone_pair_radical_multiple_bond_resonance_structures",
           "generate_N5dc_radical_resonance_structures",
           "generate_optimal_aromatic_resonance_structures",
           "generate_aryne_resonance_structures",
           "generate_kekule_structure",
           "generate_clar_structures">>
    ELSE (IF feat.is_radical /\ ~feat.is_aromatic /\ ~feat.is_aryl_radical
          THEN <<"generate_allyl_delocalization_resonance_structures">> ELSE << >>)
         \o (IF feat.is_cyclic THEN <<"generate_aryne_resonance_structures">> ELSE << >>)
         \o (IF feat.hasNitrogenVal5
             THEN <<"generate_N5dc_radical_resonance_structures">> ELSE << >>)
         \o (IF feat.hasLonePairs
             THEN <<"generate_adj_lone_pair_radical_resonance_structures",
                    "generate_adj_lone_pair_multiple_bond_resonance_structures",
                    "generate_adj_lone_pair_radical_multiple_bond_resonance_structures">>
                  \o (IF ~feat.is_aromatic
                      THEN <<"generate_lone_pair_multiple_bond_resonance_structures">>
                      ELSE << >>)
             ELSE << >>)

(* the features and the worklist once generate_optimal_aromatic_resonance_structures
   has returned r *)
optimal_merge(mol, feat, keep_isomorphic, r) ==
    IF ~r.ok THEN [ok |-> FALSE, features |-> feat, mol_list |-> <<r.arg>>]
    ELSE IF r.list = << >>
    THEN [ok |-> TRUE,
          features |-> [feat EXCEPT !.is_aromatic = FALSE, !.isPolycyclicAromatic = FALSE],
          mol_list |-> <<r.arg>>]
    ELSE [ok |-> TRUE,
          features |-> [feat EXCEPT !.is_aromatic = TRUE,
                            !.isPolycyclicAromatic =
                                @ \/ Len(get_aromatic_rings(r.list[1])) > 1],
          mol_list |-> <<r.arg>> \o
              SelectIdx(r.list, {j \in 1..Len(r.list) :
                                   ~is_duplicate(mol, r.list[j], keep_isomorphic)}, 1)]

(* "Use generate_optimal_aromatic_resonance_structures to check for false positives
   and negatives": the features and the worklist after that step *)
optimal_stage(mol, feat, keep_isomorphic, k) ==
    IF ~(feat.is_aromatic \/ (feat.is_cyclic /\ feat.is_radical /\ ~feat.is_aryl_radical))
    THEN [ok |-> TRUE, features |-> feat, mol_list |-> <<mol>>]
    ELSE ByValue(generate_optimal_aromatic_resonance_structures(mol, feat, k),
                 LAMBDA r : optimal_merge(mol, feat, keep_isomorphic, r))

(* "Special handling for aromatic species": the method lists of the passes run
   before the remaining rules *)
special_passes_fallback(feat, clar_structures) ==
    IF ~feat.is_aromatic THEN << >>
    ELSE (IF feat.is_radical /\ ~feat.is_aryl_radical
          THEN << <<"generate_kekule_structure">>,
                  <<"generate_allyl_delocalization_resonance_structures">> >>
          ELSE << >>)
         \o (IF feat.isPolycyclicAromatic /\ clar_structures
             THEN << <<"generate_clar_structures">> >>
             ELSE << >>)
         \o << <<"generate_aromatic_resonance_structure">> >>

(* the passes of "Special handling for aromatic species" *)
special_passes(feat, clar_structures) ==
    IF ~feat.is_aromatic THEN << >>
    ELSE (IF feat.is_radical /\ ~feat.is_aryl_radical
          THEN << <<"generate_kekule_structure">>,
                  <<"generate_allyl_delocalization_resonance_structures">> >>
          ELSE << >>)
         \o (IF feat.isPolycyclicAromatic /\ clar_structures
             THEN << <<"generate_clar_structures">> >>
             ELSE << <<"generate_aromatic_resonance_structure">> >>)

(* all passes of the call, in order *)
pass_plan(feat, clar_structures) ==
    special_passes(feat, clar_structures) \o << populate_resonance_algorithms(feat) >>

RECURSIVE run_passes(_, _, _, _, _)
run_passes(st, plan, i, keep_isomorphic, k) ==
    IF i > Len(plan) \/ ~st.ok THEN st
    ELSE run_passes(_generate_resonance_structures(st.mol_list, plan[i], keep_isomorphic, k),
                    plan, i + 1, keep_isomorphic, k)

(* the return of the call once the passes have left r *)
after_passes(o, feat, r) ==
    IF ~r.ok THEN [ok |-> FALSE, err |-> FALSE, list |-> << >>]
    ELSE IF ~o.filter_structures THEN [ok |-> TRUE, err |-> FALSE, list |-> r.mol_list]
    ELSE [ok |-> filter_structures(r.mol_list, TRUE, feat).ok,
          err |-> ~filter_structures(r.mol_list, TRUE, feat).ok,
          list |-> filter_structures(r.mol_list, TRUE, feat).list]

after_optimal(o, s, k) ==
    after_passes(o, s.features,
                 run_passes([ok |-> s.ok, mol_list |-> s.mol_list],
                            pass_plan(s.features, o.clar_structures), 1,
                            o.keep_isomorphic, k))

(* the whole call: [ok, err, list]; ok = FALSE when an exception leaves the
   call, err = TRUE when that exception is filtration's ResonanceError *)
generate_resonance_structures(mol, o, k) ==
    IF GetFormalCharge(mol) # 0 THEN [ok |-> TRUE, err |-> FALSE, list |-> <<mol>>]
    ELSE after_optimal(o, optimal_stage(mol, analyze_molecule(mol), o.keep_isomorphic, k), k)

----------------------------------------------------------------------------
(* filter_structures, called on a list of structures of one species *)

MaxLen == 2

NaphForms ==
    LET F == [b \in 1..11 |-> FALSE]
    IN {Naph([b \in 1..11 |-> 12], [b \in 1..11 |-> TRUE]),
        Naph(<<2, 1, 2, 1, 2, 1, 2, 1, 2, 1, 1>>, F),
        Naph(<<2, 1, 2, 1, 1, 2, 1, 2, 1, 1, 2>>, F),
        Naph(<<1, 2, 1, 2, 1, 2, 1, 2, 1, 2, 1>>, F)}

(* tetralin: the six-ring of atoms 1..4, 9, 10 aromatic, atoms 5..8 CH2 groups; the
   aromatic form and its two Kekule forms *)
TetralinForms ==
    LET H == <<1, 1, 1, 1, 2, 2, 2, 2, 0, 0>>
        F == [b \in 1..11 |-> FALSE]
    IN {[Naph(<<12, 12, 12, 12, 1, 1, 1, 1, 1, 12, 12>>,
              [b \in 1..11 |-> b \in {1, 2, 3, 4, 10, 11}]) EXCEPT !.nh = H],
        [Naph(<<2, 1, 2, 1, 1, 1, 1, 1, 1, 1, 2>>, F) EXCEPT !.nh = H],
        [Naph(<<1, 2, 1, 2, 1, 1, 1, 1, 1, 2, 1>>, F) EXCEPT !.nh = H]}

(* the lists drawn are lists of structures of one species: the closed-shell
   structures of N3(+) up to six missing or excess electron pairs, the
   structures of formamide and of NO2 up to two, benzene, benzyne, naphthalene
   and tetralin *)
FilterUniverses ==
    {{m \in U1 : get_radical_count(m) = 0 /\ get_octet_deviation(m, TRUE) <= 12},
     {m \in U2 : get_octet_deviation(m, TRUE) <= 4},
     {m \in U3 : get_octet_deviation(m, TRUE) <= 4},
     BenzeneForms, BenzyneForms, NaphForms, TetralinForms}

FilterInputs == UNION {UNION {[1..k -> U] : k \in 1..MaxLen} : U \in FilterUniverses}

(* the feature snapshot handed in: the analysis of the first structure; for a
   ring also none at all, and one saying aromatic whatever the flags say *)
FilterFeatures(mol) ==
    IF is_cyclic(mol)
    THEN {NoFeatures, analyze_molecule(mol)}
         \cup {[analyze_molecule(mol) EXCEPT !.is_aromatic = TRUE, !.isPolycyclicAromatic = p] :
                   p \in BOOLEAN}
    ELSE {analyze_molecule(mol)}

NoOpts == [clar_structures |-> FALSE, keep_isomorphic |-> FALSE,
           filter_structures |-> FALSE, allow_expanded_octet |-> TRUE]

InitFilter ==
    /\ pc = "fs_start"
    /\ entry = "filter_structures"
    /\ input_list \in FilterInputs
    /\ opts = NoOpts
    /\ features \in FilterFeatures(input_list[1])
    /\ mol_list = input_list
    /\ extra_charged = << >>
    /\ filtered_list = << >>
    /\ method_list = << >>
    /\ index = 0
    /\ min_octet_deviation = 0
    /\ min_charge_span = 0
    /\ todo = << >>
    /\ passes = << >>
    /\ result = << >>
    /\ kek = 0

fs_frame == UNCHANGED <<entry, input_list, opts, features, method_list, index,
                        min_octet_deviation, min_charge_span, todo, passes, kek, extra_charged>>

fs_multiplicity ==
    /\ pc = "fs_start"
    /\ mol_list' = multiplicity_filtration(mol_list)
    /\ pc' = "fs_octet"
    /\ UNCHANGED <<filtered_list, result>>
    /\ fs_frame

fs_octet ==
    /\ pc = "fs_octet"
    /\ filtered_list' = octet_filtration(mol_list,
                            get_octet_deviation_list(mol_list, opts.allow_expanded_octet))
    /\ pc' = "fs_charge"
    /\ UNCHANGED <<mol_list, result>>
    /\ fs_frame

fs_charge ==
    /\ pc = "fs_charge"
    /\ filtered_list' = charge_filtration(filtered_list)
    /\ pc' = "fs_aromaticity"
    /\ UNCHANGED <<mol_list, result>>
    /\ fs_frame

fs_aromaticity ==
    /\ pc = "fs_aromaticity"
    /\ IF ~features.none /\ features.is_aromatic
       THEN /\ filtered_list' = aromaticity_filtration(filtered_list, features)
            /\ mol_list' = [i \in 1..Len(mol_list) |->
                              IF \E j \in 1..Len(filtered_list) : filtered_list[j] = mol_list[i]
                              THEN unset_aromatic_flags(mol_list[i]) ELSE mol_list[i]]
       ELSE UNCHANGED <<filtered_list, mol_list>>
    /\ pc' = "fs_check"
    /\ UNCHANGED result
    /\ fs_frame

fs_return_seed ==
    /\ pc = "fs_check"
    /\ filtered_list = << >>
    /\ result' = <<mol_list[1]>>
    /\ pc' = "done"
    /\ UNCHANGED <<mol_list, filtered_list>>
    /\ fs_frame

fs_raise ==
    /\ pc = "fs_check"
    /\ filtered_list = << >>
    /\ pc' = "error"
    /\ UNCHANGED <<mol_list, filtered_list, result>>
    /\ fs_frame

fs_reorder ==
    /\ pc = "fs_check"
    /\ filtered_list # << >>
    /\ result' = reorder_front(filtered_list, mol_list[1])
    /\ pc' = "done"
    /\ UNCHANGED <<mol_list, filtered_list>>
    /\ fs_frame

NextFilter ==
    \/ fs_multiplicity
    \/ fs_octet
    \/ fs_charge
    \/ fs_aromaticity
    \/ fs_raise
    \/ fs_reorder

SpecFilter == InitFilter /\ [][NextFilter]_vars

----------------------------------------------------------------------------
(* Properties of filter_structures *)

Without(s, k) == SelectIdx(s, (1..Len(s)) \ {k}, 1)

SeedHits == {i \in 1..Len(filtered_list) : Isomorphic(filtered_list[i], mol_list[1])}

(* C2: when filter_structures returns, element 0 of the result is isomorphic to the
   first input structure: the first survivor isomorphic to the seed has been moved
   to position 0, or else the seed itself has been inserted there, and the other
   survivors keep their relative order *)
C2_SeedFirst ==
    pc = "done" =>
        /\ Isomorphic(result[1], input_list[1])
        /\ IF SeedHits # {}
           THEN result = <<filtered_list[MinOf(SeedHits)]>>
                            \o Without(filtered_list, MinOf(SeedHits))
           ELSE result = <<mol_list[1]>> \o filtered_list

C2_Witness ==
    /\ pc = "done"
    /\ SeedHits = {}
    /\ Len(result) = Len(filtered_list) + 1

C2_WitnessMoved ==
    /\ pc = "done"
    /\ SeedHits # {}
    /\ MinOf(SeedHits) > 1

(* C6: if the filters together leave no structure, filter_structures raises
   ResonanceError and returns nothing, the seed included; it returns a list only
   when some structure survived *)
C6_RaisesOnEmpty ==
    /\ pc = "error" => filtered_list = << >> /\ result = << >>
    /\ pc = "done" => filtered_list # << >>
    /\ pc \in {"done", "error"} =>
          (pc = "error" <=> filter_stage(input_list, opts.allow_expanded_octet, features) = << >>)

C6_Witness ==
    /\ pc = "error"
    /\ ~features.is_aromatic
    /\ Len(input_list) = 2

Deviation(mol) == get_octet_deviation(mol, opts.allow_expanded_octet)

(* C3 as stated: every structure of the returned list has the minimum octet
   deviation of the whole list passed in *)
C3_Original ==
    pc = "done" =>
        \A i \in 1..Len(result) :
            Deviation(result[i]) =
                MinOf({Deviation(input_list[j]) : j \in 1..Len(input_list)})

(* C3 as amended, first half only: every returned structure but a re-inserted seed
   has the minimum octet deviation of the whole list passed in *)
C3_SeedExempt ==
    pc = "done" =>
        \A i \in 1..Len(result) :
            \/ i = 1 /\ SeedHits = {}
            \/ Deviation(result[i]) =
                  MinOf({Deviation(input_list[j]) : j \in 1..Len(input_list)})

(* C3: every structure of the returned list, other than a seed re-inserted at
   position 0 because no survivor is isomorphic to it, has the minimum octet
   deviation found among the structures passed in that have the radical count of
   the first one *)
C3_KeptAtMinimum ==
    pc = "done" =>
        \A i \in 1..Len(result) :
            \/ i = 1 /\ SeedHits = {}
            \/ Deviation(result[i]) =
                  MinOf({Deviation(input_list[j]) :
                            j \in {k \in 1..Len(input_list) :
                                      get_radical_count(input_list[k])
                                          = get_radical_count(input_list[1])}})

C3_Witness ==
    /\ pc = "done"
    /\ Len(filtered_list) < Len(mol_list)
    /\ SeedHits # {}
    /\ \E j \in 1..Len(input_list) : Deviation(input_list[j]) > Deviation(result[1])

(* C4: filtration is idempotent: filter_structures applied to its own result, with
   the same feature snapshot, returns the same structures in the same order *)
C4_Idempotent ==
    pc = "done" =>
        filter_structures(result, opts.allow_expanded_octet, features)
            = [ok |-> TRUE, list |-> result]

C4_Witness ==
    /\ pc = "done"
    /\ SeedHits = {}
    /\ Len(result) >= 2
    /\ get_charge_span(result[2]) > 0

----------------------------------------------------------------------------
(* Calls of generate_resonance_structures on a seed, of
   _generate_resonance_structures on a start list, and of filter_structures *)

MaxStart == 2

PhenylForms ==
    LET H == <<0, 1, 1, 1, 1, 1>>
        R == <<1, 0, 0, 0, 0, 0>>
        F == [i \in 1..6 |-> FALSE]
        T == [i \in 1..6 |-> TRUE]
    IN {Ring6(H, R, [i \in 1..6 |-> 12], T), Ring6(H, R, <<1, 2, 1, 2, 1, 2>>, F),
        Ring6(H, R, <<2, 1, 2, 1, 2, 1>>, F)}

(* benzyl radical with the radical on the CH2 group, and with it in the ring *)
BenzylForms ==
    LET H == <<0, 1, 1, 1, 1, 1, 2>>
        R == <<0, 0, 0, 0, 0, 0, 1>>
    IN {Benzyl(H, R, <<12, 12, 12, 12, 12, 12, 1>>, [b \in 1..7 |-> b <= 6]),
        Benzyl(H, R, <<1, 2, 1, 2, 1, 2, 1>>, [b \in 1..7 |-> FALSE]),
        Benzyl(H, R, <<2, 1, 2, 1, 2, 1, 1>>, [b \in 1..7 |-> FALSE]),
        Benzyl(H, <<0, 1, 0, 0, 0, 0, 0>>, <<1, 1, 2, 1, 2, 1, 2>>, [b \in 1..7 |-> FALSE]),
        Benzyl(H, <<0, 0, 0, 1, 0, 0, 0>>, <<1, 2, 1, 1, 2, 1, 2>>, [b \in 1..7 |-> FALSE])}

(* rings that are not aromatic: 1,3-cyclohexadiene and the cyclohexadienyl radical *)
DieneForms ==
    LET F == [i \in 1..6 |-> FALSE]
    IN {Ring6(<<1, 1, 1, 1, 2, 2>>, <<0, 0, 0, 0, 0, 0>>, <<2, 1, 2, 1, 1, 1>>, F),
        Ring6(<<1, 1, 1, 1, 1, 2>>, <<0, 0, 0, 0, 1, 0>>, <<2, 1, 2, 1, 1, 1>>, F),
        Ring6(<<1, 1, 1, 1, 1, 2>>, <<1, 0, 0, 0, 0, 0>>, <<1, 2, 1, 2, 1, 1>>, F)}

(* the N3 radical, neutral, on the skeleton of the N3(+) cation U1 *)
U4 == ChainStructures(<<7, 7, 7>>, <<0, 0, 0>>, 0)

(* hydrazoic acid HN3, the azide of the docstrings, and the azide anion N3(-) *)
U5 == ChainStructures(<<7, 7, 7>>, <<1, 0, 0>>, 0)
U6 == ChainStructures(<<7, 7, 7>>, <<0, 0, 0>>, -1)

ChainSeeds ==
    {m \in U2 \cup U3 \cup U4 :
        get_radical_count(m) <= 1 /\ get_octet_deviation(m, TRUE) <= 2}
    \cup {m \in U1 : get_radical_count(m) = 0 /\ get_octet_deviation(m, TRUE) <= 4}
    \cup {m \in U5 \cup U6 : get_radical_count(m) = 0 /\ get_octet_deviation(m, TRUE) = 0}

Seeds == BenzeneForms \cup BenzyneForms \cup PhenylForms \cup BenzylForms
         \cup NaphForms \cup DieneForms \cup ChainSeeds

(* a six-ring with two CH groups: the form with two triple bonds, and a
   tetraradical with alternating bonds, four electrons short of its octets *)
TetradehydroForms ==
    LET H == <<0, 0, 0, 0, 1, 1>>
        F == [i \in 1..6 |-> FALSE]
    IN {Ring6(H, <<0, 0, 0, 0, 0, 0>>, <<3, 1, 3, 1, 2, 1>>, F),
        Ring6(H, <<1, 1, 1, 1, 0, 0>>, <<2, 1, 2, 1, 2, 1>>, F)}

(* start lists handed to the engine: structures on one skeleton, net charges mixed *)
StartUniverses ==
    {BenzeneForms \cup BenzyneForms,
     TetradehydroForms,
     {m \in U1 \cup U4 :
         get_radical_count(m) <= 1 /\ get_octet_deviation(m, TRUE) <= 4}}

StartLists == UNION {UNION {[1..k -> U] : k \in 1..MaxStart} : U \in StartUniverses}

MethodLists ==
    {populate_resonance_algorithms(NoFeatures),
     <<"generate_kekule_structure">>,
     <<"generate_aromatic_resonance_structure", "generate_aryne_resonance_structures">>,
     <<"generate_optimal_aromatic_resonance_structures",
       "generate_aromatic_resonance_structure">>,
     <<"generate_lone_pair_multiple_bond_resonance_structures",
       "generate_allyl_delocalization_resonance_structures">>}

(* a call of generate_resonance_structures on a seed *)
InitGenerate ==
    /\ entry = "generate_resonance_structures"
    /\ pc = "grs_start"
    /\ \E seed \in Seeds : input_list = <<seed>>
    /\ opts \in [clar_structures : BOOLEAN, keep_isomorphic : BOOLEAN,
                 filter_structures : BOOLEAN, allow_expanded_octet : {TRUE}]
    /\ todo = << >>
    /\ features = NoFeatures

(* a call of _generate_resonance_structures on a start list *)
InitEngine ==
    /\ entry = "_generate_resonance_structures"
    /\ pc = "pass_start"
    /\ input_list \in StartLists
    /\ opts \in [clar_structures : {FALSE}, keep_isomorphic : BOOLEAN,
                 filter_structures : {FALSE}, allow_expanded_octet : {TRUE}]
    /\ \E m \in MethodLists : todo = <<m>>
    /\ features = NoFeatures

Init ==
    \/ /\ InitGenerate \/ InitEngine
       /\ kek \in {0, 1}
       /\ mol_list = input_list
       /\ extra_charged = << >>
       /\ filtered_list = << >>
       /\ method_list = << >>
       /\ index = 0
       /\ min_octet_deviation = 0
       /\ min_charge_span = 0
       /\ passes = << >>
       /\ result = << >>
    \/ InitFilter

(* a charged seed sent on to the analysis like a neutral one *)
grs_charged_analyzed ==
    /\ pc = "grs_start"
    /\ GetFormalCharge(mol_list[1]) # 0
    /\ features' = analyze_molecule(mol_list[1])
    /\ pc' = "grs_optimal"
    /\ UNCHANGED <<entry, input_list, opts, mol_list, filtered_list, method_list, index,
                   min_octet_deviation, min_charge_span, todo, passes, result, kek,
                   extra_charged>>

(* "if mol.GetFormalCharge() != 0: return [mol]" *)
grs_charged ==
    /\ pc = "grs_start"
    /\ GetFormalCharge(mol_list[1]) # 0
    /\ result' = <<mol_list[1]>>
    /\ pc' = "done"
    /\ UNCHANGED <<entry, input_list, opts, features, mol_list, filtered_list, method_list,
                   index, min_octet_deviation, min_charge_span, todo, passes, kek,
                   extra_charged>>

grs_analyze ==
    /\ pc = "grs_start"
    /\ GetFormalCharge(mol_list[1]) = 0
    /\ features' = analyze_molecule(mol_list[1])
    /\ pc' = "grs_optimal"
    /\ UNCHANGED <<entry, input_list, opts, mol_list, filtered_list, method_list, index,
                   min_octet_deviation, min_charge_span, todo, passes, result, kek,
                   extra_charged>>

(* the call's state once that check has left s *)
set_optimal(s) ==
    /\ features' = s.features
    /\ mol_list' = s.mol_list
    /\ todo' = pass_plan(s.features, opts.clar_structures)
    /\ pc' = IF s.ok THEN "pass_start" ELSE "raised"

(* the check for false positives and negatives, and the passes it leaves to run *)
grs_optimal ==
    /\ pc = "grs_optimal"
    /\ \E s \in {optimal_stage(mol_list[1], features, opts.keep_isomorphic, kek)} :
          set_optimal(s)
    /\ UNCHANGED <<entry, input_list, opts, filtered_list, method_list, index,
                   min_octet_deviation, min_charge_span, passes, result, kek, extra_charged>>

(* _generate_resonance_structures is entered with the next method list *)
pass_start ==
    /\ pc = "pass_start"
    /\ todo # << >>
    /\ method_list' = Head(todo)
    /\ todo' = Tail(todo)
    /\ index' = 0
    /\ min_octet_deviation' = MinOf(Range(get_octet_deviation_list(mol_list, TRUE)))
    /\ min_charge_span' = MinOf(Range(get_charge_span_list(mol_list)))
    /\ pc' = "scan"
    /\ UNCHANGED <<entry, input_list, opts, features, mol_list, filtered_list, passes,
                   result, kek, extra_charged>>

(* the pass state st written back to the variables *)
set_pass(st) ==
    /\ mol_list' = st.mol_list
    /\ index' = st.index
    /\ min_octet_deviation' = st.min_octet_deviation
    /\ min_charge_span' = st.min_charge_span
    /\ pc' = IF st.ok THEN "scan" ELSE "raised"

scan_noadvance ==
    /\ pc = "scan"
    /\ index < Len(mol_list)
    /\ \E st \in {scan_body([ok |-> TRUE, mol_list |-> mol_list, index |-> index,
                         min_octet_deviation |-> min_octet_deviation,
                         min_charge_span |-> min_charge_span],
                        method_list, opts.keep_isomorphic, kek)} :
          set_pass(st)
    /\ UNCHANGED <<entry, input_list, opts, features, filtered_list, method_list, todo,
                   passes, result, kek, extra_charged>>

(* one turn of "while index < len(mol_list)" *)
scan ==
    /\ pc = "scan"
    /\ index < Len(mol_list)
    /\ \E st \in {scan_step([ok |-> TRUE, mol_list |-> mol_list, index |-> index,
                         min_octet_deviation |-> min_octet_deviation,
                         min_charge_span |-> min_charge_span],
                        method_list, opts.keep_isomorphic, kek)} :
          set_pass(st)
    /\ UNCHANGED <<entry, input_list, opts, features, filtered_list, method_list, todo,
                   passes, result, kek, extra_charged>>

(* the loop is left: net charges are checked and the pass returns *)
pass_end ==
    /\ pc = "scan"
    /\ index >= Len(mol_list)
    /\ mol_list' = remove_charge_mismatch(mol_list)
    /\ passes' = Append(passes, method_list)
    /\ pc' = IF todo # << >> THEN "pass_start" ELSE "return"
    /\ UNCHANGED <<entry, input_list, opts, features, filtered_list, method_list, index,
                   min_octet_deviation, min_charge_span, todo, result, kek, extra_charged>>

(* the direct call returns its list *)
engine_return ==
    /\ pc = "return"
    /\ entry = "_generate_resonance_structures"
    /\ result' = mol_list
    /\ pc' = "done"
    /\ UNCHANGED <<entry, input_list, opts, features, mol_list, filtered_list, method_list,
                   index, min_octet_deviation, min_charge_span, todo, passes, kek,
                   extra_charged>>

(* "return mol_list" *)
grs_return ==
    /\ pc = "return"
    /\ entry = "generate_resonance_structures"
    /\ ~opts.filter_structures
    /\ result' = mol_list
    /\ pc' = "done"
    /\ UNCHANGED <<entry, input_list, opts, features, mol_list, filtered_list, method_list,
                   index, min_octet_deviation, min_charge_span, todo, passes, kek,
                   extra_charged>>

(* "return filtration.filter_structures(mol_list, features=features)": the filter
   is entered on the worklist *)
grs_filter ==
    /\ pc = "return"
    /\ entry = "generate_resonance_structures"
    /\ opts.filter_structures
    /\ pc' = "fs_start"
    /\ UNCHANGED <<entry, input_list, opts, features, mol_list, filtered_list, method_list,
                   index, min_octet_deviation, min_charge_span, todo, passes, result, kek,
                   extra_charged>>

Next ==
    \/ grs_charged
    \/ grs_analyze
    \/ grs_optimal
    \/ pass_start
    \/ scan
    \/ pass_end
    \/ engine_return
    \/ grs_return
    \/ grs_filter
    \/ fs_multiplicity
    \/ fs_octet
    \/ fs_charge
    \/ fs_aromaticity
    \/ fs_raise
    \/ fs_reorder

Spec == Init /\ [][Next]_vars

(* the calls followed under fairness: every call of Init, a direct call of the
   engine being one on a single start graph *)
InitFair ==
    /\ Init
    /\ entry = "_generate_resonance_structures" => Len(input_list) = 1

(* the interpreter runs the loop on: a turn that can be taken is taken *)
SpecFair == InitFair /\ [][Next]_vars /\ WF_vars(scan)

----------------------------------------------------------------------------
(* Properties of generate_resonance_structures and of the expansion engine *)

Seed == input_list[1]

(* an expansion pass has just ended: the worklist is as the pass returned it *)
PassEnded == pc \in {"pass_start", "return"} /\ passes # << >>

(* C1: every structure generate_resonance_structures returns has the atom count
   and the net formal charge of the seed, and when an expansion pass ends no
   worklist member has a net formal charge other than that of the first member *)
C1_ChargeAndAtomCount ==
    /\ (entry = "generate_resonance_structures" /\ pc = "done") =>
          \A i \in 1..Len(result) :
             /\ Len(result[i].elem) = Len(Seed.elem)
             /\ GetFormalCharge(result[i]) = GetFormalCharge(Seed)
    /\ PassEnded =>
          \A i \in 1..Len(mol_list) :
             GetFormalCharge(mol_list[i]) = GetFormalCharge(mol_list[1])

(* a pass on a start list of mixed net charges has ended and has removed a member *)
C1_Witness ==
    /\ PassEnded
    /\ entry = "_generate_resonance_structures"
    /\ \E i \in 1..Len(input_list) : GetFormalCharge(input_list[i]) # GetFormalCharge(Seed)
    /\ Len(mol_list) < Len(input_list)

(* l1 and l2 have equal size and their members pair off into isomorphic pairs *)
IsoMatch(l1, l2) ==
    /\ Len(l1) = Len(l2)
    /\ \E f \in [1..Len(l1) -> 1..Len(l1)] :
          /\ \A i, j \in 1..Len(l1) : f[i] = f[j] => i = j
          /\ \A i \in 1..Len(l1) : Isomorphic(l1[i], l2[f[i]])

(* the seed calls that have ended, in a list or in an exception *)
CallEnded == entry = "generate_resonance_structures" /\ pc \in {"done", "error", "raised"}

(* the call on any atom-renumbered copy of the seed, with the same options and
   whichever Kekule form RDKit picks there, ends the same way and returns a list of
   the same size whose members pair off isomorphic with those returned for the seed *)
PermutedRunsAgree ==
    \A p \in Sym(Seed.topo), k \in {0, 1} :
       LET g == generate_resonance_structures(Permute(Seed, p), opts, k)
       IN /\ g.ok = (pc = "done")
          /\ g.err = (pc = "error")
          /\ g.ok => IsoMatch(result, g.list)

(* C5 as stated: the result of generate_resonance_structures does not depend on
   the atom numbering of the seed, whatever the options *)
C5_Original == CallEnded => PermutedRunsAgree

(* C5: with keep_isomorphic off, generate_resonance_structures on a seed and on an
   atom-renumbered copy of it return lists of equal size whose members are pairwise
   isomorphic *)
C5_IsomorphismInvariant == (CallEnded /\ ~opts.keep_isomorphic) => PermutedRunsAgree

(* a call with keep_isomorphic off has returned several structures, and a renumbered
   copy of the seed gives a list that differs from it atom for atom *)
C5_Witness ==
    /\ CallEnded /\ pc = "done" /\ ~opts.keep_isomorphic
    /\ Len(result) >= 2
    /\ \E p \in Sym(Seed.topo) :
          /\ Permute(Seed, p) # Seed
          /\ generate_resonance_structures(Permute(Seed, p), opts, kek).list # result

(* the charges, radical counts and bond orders of m2 are those of m1 *)
Unmutated(m1, m2) == m1.chg = m2.chg /\ m1.rad = m2.rad /\ m1.ord = m2.ord

(* the scan is about to take a turn on the member at index *)
ScanTurn == pc = "scan" /\ index < Len(mol_list)

(* every rule the engine can be handed *)
AllRules ==
    Range(populate_resonance_algorithms(NoFeatures))
    \cup {"generate_aromatic_resonance_structure"}

(* C7: no step of a call changes the charges, radical counts or bond orders of the
   seed or of a worklist member: not the check by
   generate_optimal_aromatic_resonance_structures, not a turn of the scan, and none
   of the rules when it is handed the member the scan is at *)
C7_NoMutation ==
    [][/\ (pc = "grs_optimal" \/ ScanTurn) =>
             \A i \in 1..Len(mol_list) : Unmutated(mol_list[i], mol_list'[i])
       /\ entry = "generate_resonance_structures" => Unmutated(Seed, mol_list'[1])
       /\ ScanTurn =>
             \A name \in AllRules :
                Unmutated(mol_list[index + 1], apply_method(name, mol_list[index + 1], kek).arg)
      ]_vars

(* the check by generate_optimal_aromatic_resonance_structures has run on the seed
   and has added a structure with other bond orders *)
C7_Witness ==
    /\ entry = "generate_resonance_structures"
    /\ pc = "pass_start" /\ passes = << >>
    /\ Len(mol_list) >= 2
    /\ mol_list[1] = Seed
    /\ mol_list[2].ord # Seed.ord

(* the nine rules of C8 *)
NineRules ==
    {"generate_allyl_delocalization_resonance_structures",
     "generate_lone_pair_multiple_bond_resonance_structures",
     "generate_adj_lone_pair_radical_resonance_structures",
     "generate_adj_lone_pair_multiple_bond_resonance_structures",
     "generate_adj_lone_pair_radical_multiple_bond_resonance_structures",
     "generate_N5dc_radical_resonance_structures",
     "generate_aryne_resonance_structures",
     "generate_kekule_structure",
     "generate_clar_structures"}

(* C8: handed the member the scan is at, each of the nine rules returns a list and
   raises nothing, and no turn of a scan over these rules ends in an exception *)
C8_RulesNeverRaise ==
    /\ ScanTurn => \A name \in NineRules : apply_method(name, mol_list[index + 1], kek).ok
    /\ (pc = "raised" /\ passes # << >>) => ~(Range(method_list) \subseteq NineRules)

(* the scan is at a member with an aromatic ring and the Clar rule is among the
   rules: the optimization fails inside the rule *)
C8_Witness ==
    /\ ScanTurn
    /\ "generate_clar_structures" \in Range(method_list)
    /\ get_aromatic_rings(mol_list[index + 1]) # << >>
    /\ ~_clar_optimization(mol_list[index + 1]).ok

(* C9: every expansion pass terminates: once a scan is under way its index
   eventually reaches the end of the worklist *)
C9_PassTerminates == (pc = "scan") ~> (pc = "scan" /\ index >= Len(mol_list))

(* a scan has reached the end of a worklist that grew while it ran *)
C9_Witness ==
    /\ entry = "_generate_resonance_structures"
    /\ pc = "scan" /\ index >= Len(mol_list)
    /\ Len(mol_list) > Len(input_list)

(* a seed call with Clar generation asked for, on a seed found polycyclic aromatic *)
ClarCase ==
    /\ entry = "generate_resonance_structures"
    /\ opts.clar_structures
    /\ ~features.none
    /\ features.isPolycyclicAromatic

CallFailed == pc \in {"raised", "error"}

(* the claim as stated: the call does not fail and a pass of
   generate_aromatic_resonance_structure is run in it *)
C10_Original ==
    ClarCase => /\ ~CallFailed
                /\ pc = "done" =>
                      <<"generate_aromatic_resonance_structure">> \in Range(passes)

(* C10: when Clar generation is on for a polycyclic aromatic seed and the Clar
   optimization fails, the call does not fail and the Clar rule yields no
   structure for the member it is applied to; the call runs the Clar pass and
   runs no pass of generate_aromatic_resonance_structure *)
C10_ClarAbortedOnly ==
    ClarCase =>
        /\ ~CallFailed
        /\ <<"generate_aromatic_resonance_structure">> \notin Range(passes)
        /\ method_list # <<"generate_aromatic_resonance_structure">>
        /\ pc = "done" => <<"generate_clar_structures">> \in Range(passes)
        /\ (ScanTurn /\ method_list = <<"generate_clar_structures">>) =>
              /\ ~_clar_optimization(mol_list[index + 1]).ok
              /\ generate_clar_structures(mol_list[index + 1])
                     = Returns(mol_list[index + 1], << >>)

(* the call has returned after a Clar pass whose optimization failed *)
C10_Witness ==
    /\ ClarCase
    /\ pc = "done"
    /\ <<"generate_clar_structures">> \in Range(passes)
    /\ ~_clar_optimization(input_list[1]).ok

(* the amide-like seed H2N-CH=O: N single-bonded to C, C double-bonded to O, a
   lone pair on N; and its zwitterion H2N(+)=CH-O(-) *)
Amide == Chain3(<<7, 6, 8>>, <<2, 1, 0>>, <<0, 0, 0>>, <<0, 0, 0>>, <<1, 2>>)

AmideZwitterion == Chain3(<<7, 6, 8>>, <<2, 1, 0>>, <<1, 0, -1>>, <<0, 0, 0>>, <<2, 1>>)

AmideCall ==
    /\ entry = "generate_resonance_structures"
    /\ Seed = Amide
    /\ opts.filter_structures

(* C11: for the neutral amide-like seed the lone-pair/multiple-bond rule produces
   the zwitterion when the scan is at the seed, and the call returns exactly one
   structure *)
C11_AmideZwitterion ==
    AmideCall =>
        /\ (/\ ScanTurn
            /\ mol_list[index + 1] = Amide
            /\ "generate_lone_pair_multiple_bond_resonance_structures" \in Range(method_list))
           => AmideZwitterion \in
                 Range(generate_lone_pair_multiple_bond_resonance_structures(Amide).list)
        /\ pc = "done" => Len(result) = 1

(* the three structures of azide (HN3) without octet deviation: [NH-][N+]#N,
   N=[N+]=[N-] and the doubly charge-separated [NH+]#[N+][N-2] *)
AzideForms == {m \in U5 : get_radical_count(m) = 0 /\ get_octet_deviation(m, TRUE) = 0}

AzideMinimalSpan ==
    {m \in AzideForms :
        get_charge_span(m) = MinOf({get_charge_span(n) : n \in AzideForms})}

AzideCall ==
    /\ entry = "generate_resonance_structures"
    /\ Seed \in AzideMinimalSpan
    /\ opts.filter_structures

(* C12: for an azide seed the expansion reaches the three structures without octet
   deviation, and the call returns exactly the two of them of minimal charge span,
   the one of strictly higher charge span being rejected *)
C12_AzideThreeThenTwo ==
    AzideCall =>
        /\ PassEnded => AzideForms \subseteq Range(mol_list)
        /\ pc = "done" => Range(result) = AzideMinimalSpan /\ Len(result) = 2

----------------------------------------------------------------------------
(* resonance_rmg.py: generate_isomorphic_resonance_structures.  mol_list holds
   isomers, result holds isomorphic_isomers; saturate_h changes nothing, the
   molecules Chem.AddHs and Chem.RemoveHs return being dropped *)

(* "for newIsomer in new_isomers": a new isomer that matches a member of isomers
   goes to isomorphic_isomers, any other is appended to isomers *)
RECURSIVE sort_new_isomers(_, _, _)
sort_new_isomers(st, new_isomers, j) ==
    IF j > Len(new_isomers) THEN st
    ELSE ByValue(
            IF \E i \in 1..Len(st.isomers) :
                  GetSubstructMatch(new_isomers[j], st.isomers[i])
            THEN [st EXCEPT !.isomorphic_isomers = Append(@, new_isomers[j])]
            ELSE [st EXCEPT !.isomers = Append(@, new_isomers[j])],
            LAMBDA sorted : sort_new_isomers(sorted, new_isomers, j + 1))

(* one turn of "while index < len(isomers)" with r what the ten rules returned
   for isomers[index]; the parameter isomer is element 0 of both lists *)
isomer_turn(st, r) ==
    LET seen == [st EXCEPT !.isomers[st.index + 1] = r.arg,
                           !.isomorphic_isomers[1] = IF st.index = 0 THEN r.arg ELSE @]
    IN IF ~r.ok THEN [seen EXCEPT !.ok = FALSE]
       ELSE [sort_new_isomers(seen, r.list, 1) EXCEPT !.index = @ + 1]

isomer_step(st, k) ==
    ByValue(apply_methods(populate_resonance_algorithms(NoFeatures), 1,
                          Returns(st.isomers[st.index + 1], << >>), k),
            LAMBDA r : isomer_turn(st, r))

InitIsomorphic ==
    /\ entry = "generate_isomorphic_resonance_structures"
    /\ pc = "iso_scan"
    /\ \E seed \in Seeds : input_list = <<seed>>
    /\ opts \in [clar_structures : {FALSE}, keep_isomorphic : {FALSE},
                 filter_structures : {FALSE}, allow_expanded_octet : {TRUE},
                 saturate_h : BOOLEAN]
    /\ kek \in {0, 1}
    /\ mol_list = input_list
    /\ result = input_list
    /\ index = 0
    /\ extra_charged = << >>
    /\ features = NoFeatures
    /\ filtered_list = << >>
    /\ method_list = << >>
    /\ min_octet_deviation = 0
    /\ min_charge_span = 0
    /\ todo = << >>
    /\ passes = << >>

iso_frame == UNCHANGED <<entry, input_list, opts, features, filtered_list, method_list,
                         min_octet_deviation, min_charge_span, todo, passes, kek,
                         extra_charged>>

iso_scan ==
    /\ pc = "iso_scan"
    /\ index < Len(mol_list)
    /\ \E st \in {isomer_step([ok |-> TRUE, isomers |-> mol_list,
                               isomorphic_isomers |-> result, index |-> index], kek)} :
          /\ mol_list' = st.isomers
          /\ result' = st.isomorphic_isomers
          /\ index' = st.index
          /\ pc' = IF st.ok THEN "iso_scan" ELSE "raised"
    /\ iso_frame

(* "return isomorphic_isomers" *)
iso_return ==
    /\ pc = "iso_scan"
    /\ index >= Len(mol_list)
    /\ pc' = "done"
    /\ UNCHANGED <<mol_list, result, index>>
    /\ iso_frame

NextIsomorphic == iso_scan \/ iso_return

(* the interpreter runs the loop on and returns when it is left *)
SpecIsomorphic ==
    InitIsomorphic /\ [][NextIsomorphic]_vars /\ WF_vars(iso_scan) /\ WF_vars(iso_return)

IsomorphicCallEnded == entry = "generate_isomorphic_resonance_structures" /\ pc = "done"

(* C13: every structure generate_isomorphic_resonance_structures returns is
   isomorphic to the input molecule and the input itself is element 0: a new
   isomer is retained only if it is isomorphic to the input *)
C13_OnlyIsomorphicReturned ==
    IsomorphicCallEnded =>
        /\ result[1] = Seed
        /\ \A i \in 1..Len(result) : Isomorphic(result[i], Seed)

(* the call terminates *)
IsomorphicCallTerminates == (pc = "iso_scan") ~> (pc \in {"done", "raised"})

----------------------------------------------------------------------------
(* a call of generate_resonance_structures on a seed with a net formal charge *)
ChargedSeedCall ==
    /\ entry = "generate_resonance_structures"
    /\ GetFormalCharge(Seed) # 0

(* C14: a call of generate_resonance_structures on a seed whose net formal charge
   is not zero returns the list holding the seed alone, whatever the options: the
   seed is not analyzed, no pass is started, no rule is applied, nothing is added
   to the worklist and the filter is not entered *)
C14_ChargedSeedReturnedAlone ==
    ChargedSeedCall =>
        /\ pc \in {"grs_start", "done"}
        /\ pc = "done" => result = <<Seed>>
        /\ features = NoFeatures
        /\ passes = << >> /\ method_list = << >> /\ todo = << >>
        /\ mol_list = <<Seed>>
        /\ filtered_list = << >>

(* the call on a charged seed has returned, with Clar structures and filtration
   asked for and isomorphic structures kept *)
C14_Witness ==
    /\ ChargedSeedCall
    /\ pc = "done"
    /\ opts.clar_structures /\ opts.keep_isomorphic /\ opts.filter_structures

----------------------------------------------------------------------------
(* the member the scan is at, and whether the on-the-fly filtration lets the rules
   be applied to it *)
Scanned == mol_list[index + 1]

ScannedWithinSlack ==
    /\ get_octet_deviation(Scanned, TRUE) <= min_octet_deviation + 4
    /\ get_charge_span(Scanned) <= min_charge_span + 1

(* the worklist if the rules of the pass were applied to the scanned member *)
WorklistIfExtended ==
    append_unique(mol_list,
                  apply_methods(method_list, 1, Returns(Scanned, << >>), kek).list,
                  1, opts.keep_isomorphic)

(* C15: in an expansion pass the rules are applied to the scanned member only if
   its octet deviation is at most the running minimum + 2 (+ 4 in the doubled
   units) and its charge span at most the running minimum + 1, nothing being
   appended for a member beyond that; the running minima are those of the worklist
   the pass starts on, they never increase, and one changes only to the score of a
   scanned member within the slack that is strictly below it *)
C15_SlackAndRunningMinima ==
    /\ []((pc = "scan" /\ index = 0) =>
             /\ min_octet_deviation = MinOf(Range(get_octet_deviation_list(mol_list, TRUE)))
             /\ min_charge_span = MinOf(Range(get_charge_span_list(mol_list))))
    /\ [][ScanTurn =>
             /\ ~ScannedWithinSlack => mol_list' = mol_list
             /\ min_octet_deviation' <= min_octet_deviation
             /\ min_charge_span' <= min_charge_span
             /\ min_octet_deviation' # min_octet_deviation =>
                   /\ ScannedWithinSlack
                   /\ min_octet_deviation' = get_octet_deviation(Scanned, TRUE)
             /\ min_charge_span' # min_charge_span =>
                   /\ ScannedWithinSlack
                   /\ min_charge_span' = get_charge_span(Scanned)
         ]_vars

(* the scan is at a member beyond the slack to which the rules, were they applied,
   would add a structure *)
C15_Witness ==
    /\ ScanTurn
    /\ ~ScannedWithinSlack
    /\ WorklistIfExtended # mol_list

----------------------------------------------------------------------------
(* no two members of ml are the same structure: isomorphic, or identical when
   keep_isomorphic is set *)
PairwiseDistinct(ml, keep_isomorphic) ==
    \A i, j \in 1..Len(ml) :
        i < j => IF keep_isomorphic THEN ~is_identical(ml[i], ml[j])
                                    ELSE ~Isomorphic(ml[i], ml[j])

(* the candidates the rules of the pass return for the scanned member *)
Batch == apply_methods(method_list, 1, Returns(Scanned, << >>), kek).list

(* the scan is at a member for which the rules return two candidates that match
   each other and no member of the worklist *)
BatchHasTwin ==
    /\ ScanTurn /\ ScannedWithinSlack
    /\ \E j, k \in 1..Len(Batch) :
          /\ j < k
          /\ is_duplicate(Batch[j], Batch[k], opts.keep_isomorphic)
          /\ \A i \in 1..Len(mol_list) :
                ~is_duplicate(mol_list[i], Batch[j], opts.keep_isomorphic)

(* C16: a turn of the scan keeps the worklist pairwise distinct (no two members
   isomorphic, or identical when keep_isomorphic is set); it removes and reorders
   nothing, so the first member stays; a structure it appends matches no member
   before it, those appended in the same turn included; and the loop is left only
   when the index has passed every member, the appended ones included *)
C16_WorklistStaysDistinct ==
    /\ []((entry = "generate_resonance_structures" /\ pc = "scan") => mol_list[1] = Seed)
    /\ [][pc = "scan" =>
             /\ PairwiseDistinct(mol_list, opts.keep_isomorphic) =>
                   PairwiseDistinct(mol_list', opts.keep_isomorphic)
             /\ ScanTurn =>
                   /\ Len(mol_list') >= Len(mol_list)
                   /\ SubSeq(mol_list', 1, Len(mol_list)) = mol_list
                   /\ \A j \in (Len(mol_list) + 1)..Len(mol_list') :
                         \A i \in 1..(j - 1) :
                            ~is_duplicate(mol_list'[i], mol_list'[j], opts.keep_isomorphic)
                   /\ pc' = "scan" => index' = index + 1
             /\ ~ScanTurn => index = Len(mol_list) /\ pc' # "scan"
         ]_vars

(* the scan is at a member of a pairwise distinct worklist for which the rules
   return two candidates that match each other and no member *)
C16_Witness ==
    /\ BatchHasTwin
    /\ PairwiseDistinct(mol_list, opts.keep_isomorphic)

----------------------------------------------------------------------------
(* populate_resonance_algorithms, called on any feature snapshot or on none *)

FeatureSnapshots ==
    {NoFeatures} \cup
    [none : {FALSE}, is_radical : BOOLEAN, is_cyclic : BOOLEAN, is_aromatic : BOOLEAN,
     isPolycyclicAromatic : BOOLEAN, is_aryl_radical : BOOLEAN,
     hasNitrogenVal5 : BOOLEAN, hasLonePairs : BOOLEAN]

InitPopulate ==
    /\ entry = "populate_resonance_algorithms"
    /\ pc = "populate"
    /\ features \in FeatureSnapshots
    /\ extra_charged = << >>
    /\ input_list = << >> /\ mol_list = << >> /\ filtered_list = << >>
    /\ opts = NoOpts
    /\ method_list = << >>
    /\ index = 0
    /\ min_octet_deviation = 0
    /\ min_charge_span = 0
    /\ todo = << >>
    /\ passes = << >>
    /\ result = << >>
    /\ kek = 0

(* "return method_list" *)
populate ==
    /\ pc = "populate"
    /\ method_list' = populate_resonance_algorithms(features)
    /\ result' = method_list'
    /\ pc' = "done"
    /\ UNCHANGED <<entry, input_list, opts, features, mol_list, filtered_list, index,
                   min_octet_deviation, min_charge_span, todo, passes, kek, extra_charged>>

SpecPopulate == InitPopulate /\ [][populate]_vars

Selected(name) == name \in Range(result)

(* C17: from a feature snapshot populate_resonance_algorithms returns the allyl
   rule iff is_radical and neither is_aromatic nor is_aryl_radical, the aryne rule
   iff is_cyclic, the N5dc rule iff hasNitrogenVal5, the three adjacent lone-pair
   rules iff hasLonePairs, the 3-atom lone-pair/multiple-bond rule iff hasLonePairs
   and not is_aromatic, and never the Kekule, Clar or optimal-aromatic rule; with
   no snapshot it returns all ten rules *)
C17_RulesFromFeatures ==
    (entry = "populate_resonance_algorithms" /\ pc = "done") =>
        IF features.none
        THEN /\ Len(result) = 10
             /\ Range(result) = NineRules
                    \cup {"generate_optimal_aromatic_resonance_structures"}
        ELSE /\ Selected("generate_allyl_delocalization_resonance_structures")
                  <=> (features.is_radical /\ ~features.is_aromatic
                       /\ ~features.is_aryl_radical)
             /\ Selected("generate_aryne_resonance_structures") <=> features.is_cyclic
             /\ Selected("generate_N5dc_radical_resonance_structures")
                  <=> features.hasNitrogenVal5
             /\ \A name \in {"generate_adj_lone_pair_radical_resonance_structures",
                              "generate_adj_lone_pair_multiple_bond_resonance_structures",
                              "generate_adj_lone_pair_radical_multiple_bond_resonance_structures"} :
                   Selected(name) <=> features.hasLonePairs
             /\ Selected("generate_lone_pair_multiple_bond_resonance_structures")
                  <=> (features.hasLonePairs /\ ~features.is_aromatic)
             /\ ~Selected("generate_kekule_structure")
             /\ ~Selected("generate_clar_structures")
             /\ ~Selected("generate_optimal_aromatic_resonance_structures")

(* the call has returned for an aromatic species with lone pairs: the adjacent
   lone-pair rules are selected, the 3-atom rule is not *)
C17_Witness ==
    /\ entry = "populate_resonance_algorithms" /\ pc = "done"
    /\ ~features.none /\ features.hasLonePairs /\ features.is_aromatic
    /\ Selected("generate_adj_lone_pair_radical_resonance_structures")

----------------------------------------------------------------------------
(* filtration.py: charge_filtration, called on a list of structures of one
   species and followed statement by statement; filtered_list and extra_charged
   are the two layers *)

MaxChargeLen == 3

(* the lists drawn: up to MaxChargeLen structures, repeats included, of N3(+)
   (closed shell), of formamide or of NO2 *)
ChargeUniverses == {U \in FilterUniverses : \A m \in U : m.topo = "chain3"}

ChargeInputs == UNION {UNION {[1..k -> U] : k \in 1..MaxChargeLen} : U \in ChargeUniverses}

InitCharge ==
    /\ entry = "charge_filtration"
    /\ pc = "cf_start"
    /\ mol_list \in ChargeInputs
    /\ input_list = mol_list
    /\ filtered_list = << >>
    /\ extra_charged = << >>
    /\ result = << >>
    /\ opts = NoOpts
    /\ features = NoFeatures
    /\ method_list = << >>
    /\ index = 0
    /\ min_octet_deviation = 0
    /\ min_charge_span = 0
    /\ todo = << >>
    /\ passes = << >>
    /\ kek = 0

cf_frame == UNCHANGED <<entry, input_list, opts, features, mol_list, method_list, index,
                        min_octet_deviation, min_charge_span, todo, passes, kek>>

(* the layers are cut, or the list is returned as it is when no structure has a
   charge separation *)
cf_layers ==
    /\ pc = "cf_start"
    /\ LET charge_span_list == get_charge_span_list(mol_list)
           spans == Range(charge_span_list)
           min_span == MinOf(spans)
           Layer(span) == SelectIdx(mol_list, {i \in 1..Len(mol_list) :
                                                  charge_span_list[i] = span}, 1)
       IN IF min_span = 0 /\ Cardinality(spans) = 1
          THEN /\ result' = mol_list
               /\ pc' = "done"
               /\ UNCHANGED <<filtered_list, extra_charged>>
          ELSE /\ filtered_list' = IF Cardinality(spans) > 1 THEN Layer(min_span)
                                                             ELSE mol_list
               /\ extra_charged' = IF Cardinality(spans) > 1 THEN Layer(min_span + 1)
                                                             ELSE << >>
               /\ pc' = "cf_electronegativity"
               /\ UNCHANGED result
    /\ cf_frame

(* "filtered_list = stabilize_charges_by_electronegativity(filtered_list)" *)
cf_electronegativity ==
    /\ pc = "cf_electronegativity"
    /\ filtered_list' = stabilize_charges_by_electronegativity(filtered_list, FALSE)
    /\ pc' = "cf_proximity"
    /\ UNCHANGED <<extra_charged, result>>
    /\ cf_frame

(* "filtered_list = stabilize_charges_by_proximity(filtered_list)" *)
cf_proximity ==
    /\ pc = "cf_proximity"
    /\ filtered_list' = stabilize_charges_by_proximity(filtered_list)
    /\ pc' = IF extra_charged # << >> THEN "cf_unique_sites" ELSE "cf_return"
    /\ UNCHANGED <<extra_charged, result>>
    /\ cf_frame

(* the structures of the second layer with a radical or multiple bond site that no
   structure of filtered_list has *)
cf_unique_sites ==
    /\ pc = "cf_unique_sites"
    /\ LET sites == UNION {Atoms(mol_list[i]) : i \in 1..Len(mol_list)}
           rad_sites == {a \in sites :
                           \E i \in 1..Len(filtered_list) : filtered_list[i].rad[a] # 0}
           mul_bond_sites ==
               UNION {{{filtered_list[i].ba[b], filtered_list[i].bb[b]} :
                          b \in {x \in Bonds(filtered_list[i]) :
                                   filtered_list[i].ord[x] \in {2, 3}}} :
                      i \in 1..Len(filtered_list)}
           unique == SelectIdx(extra_charged,
                               {i \in 1..Len(extra_charged) :
                                   has_unique_sites(extra_charged[i], rad_sites,
                                                    mul_bond_sites)}, 1)
       IN /\ extra_charged' = unique
          /\ pc' = IF unique # << >> THEN "cf_extra_electronegativity" ELSE "cf_return"
    /\ UNCHANGED <<filtered_list, result>>
    /\ cf_frame

(* "stabilize_charges_by_electronegativity(extra_charged_list,
   allow_empty_list=True)" *)
cf_extra_electronegativity ==
    /\ pc = "cf_extra_electronegativity"
    /\ extra_charged' = stabilize_charges_by_electronegativity(extra_charged, TRUE)
    /\ pc' = "cf_extra_proximity"
    /\ UNCHANGED <<filtered_list, result>>
    /\ cf_frame

cf_extra_proximity ==
    /\ pc = "cf_extra_proximity"
    /\ extra_charged' = stabilize_charges_by_proximity(extra_charged)
    /\ pc' = "cf_return"
    /\ UNCHANGED <<filtered_list, result>>
    /\ cf_frame

(* the layers are returned the other way round *)
cf_return_extra_first ==
    /\ pc = "cf_return"
    /\ result' = extra_charged \o filtered_list
    /\ pc' = "done"
    /\ UNCHANGED <<filtered_list, extra_charged>>
    /\ cf_frame

(* "return filtered_list + extra_charged_list" *)
cf_return ==
    /\ pc = "cf_return"
    /\ result' = filtered_list \o extra_charged
    /\ pc' = "done"
    /\ UNCHANGED <<filtered_list, extra_charged>>
    /\ cf_frame

NextCharge ==
    \/ cf_layers
    \/ cf_electronegativity
    \/ cf_proximity
    \/ cf_unique_sites
    \/ cf_extra_electronegativity
    \/ cf_extra_proximity
    \/ cf_return

SpecCharge == InitCharge /\ [][NextCharge]_vars

ChargeCallEnded == entry = "charge_filtration" /\ pc = "done"

(* the statements followed one by one return what charge_filtration returns *)
ChargeStagesAgree == ChargeCallEnded => result = charge_filtration(mol_list)

----------------------------------------------------------------------------
(* Properties of charge_filtration *)

InputSpans == Range(get_charge_span_list(mol_list))

MinInputSpan == MinOf(InputSpans)

(* C18: charge_filtration returns its input unchanged when every structure has
   charge span 0; otherwise every structure it returns has the minimal charge span
   of the input or that span + 1, and those of minimal span come before those of
   minimal span + 1 *)
C18_SpanLayers ==
    ChargeCallEnded =>
        IF InputSpans = {0} THEN result = mol_list
        ELSE /\ \A i \in 1..Len(result) :
                   get_charge_span(result[i]) \in {MinInputSpan, MinInputSpan + 1}
             /\ \A i, j \in 1..Len(result) :
                   get_charge_span(result[i]) > get_charge_span(result[j]) => i > j

(* the call has returned structures of both layers for an input that also holds a
   structure of a larger charge span *)
C18_Witness ==
    /\ ChargeCallEnded
    /\ \E i \in 1..Len(mol_list) : get_charge_span(mol_list[i]) > MinInputSpan + 1
    /\ \E i, j \in 1..Len(result) :
          get_charge_span(result[i]) < get_charge_span(result[j])

(* no structure of the list obeys the electronegativity preference *)
NoneObeys(ml) == \A i \in 1..Len(ml) : ~ObeysElectronegativity(ml[i])

(* the claim as stated: neither layer is ever emptied by the electronegativity
   preference, a layer none of whose structures obeys it being left as it is *)
C19_Original ==
    [][/\ pc = "cf_electronegativity" =>
             /\ filtered_list' # << >>
             /\ NoneObeys(filtered_list) => filtered_list' = filtered_list
       /\ pc = "cf_extra_electronegativity" =>
             /\ extra_charged' # << >>
             /\ NoneObeys(extra_charged) => extra_charged' = extra_charged
      ]_vars

(* C19: the electronegativity preference is applied to each layer on its own,
   leaving the other layer as it is; it never empties the layer of minimal charge
   span, which is left unchanged when none of its structures obeys the preference,
   while the layer of minimal span + 1 keeps exactly its structures that obey it
   and is emptied when none does *)
C19_MinimalLayerNeverEmptied ==
    [][/\ pc = "cf_electronegativity" =>
             /\ extra_charged' = extra_charged
             /\ filtered_list' # << >>
             /\ NoneObeys(filtered_list) => filtered_list' = filtered_list
             /\ ~NoneObeys(filtered_list) =>
                   filtered_list' = SelectIdx(filtered_list,
                       {i \in 1..Len(filtered_list) :
                           ObeysElectronegativity(filtered_list[i])}, 1)
       /\ pc = "cf_extra_electronegativity" =>
             /\ filtered_list' = filtered_list
             /\ extra_charged' = SelectIdx(extra_charged,
                       {i \in 1..Len(extra_charged) :
                           ObeysElectronegativity(extra_charged[i])}, 1)
             /\ NoneObeys(extra_charged) => extra_charged' = << >>
      ]_vars

(* the preference has just been applied to a second layer none of whose structures
   obeys it, after a first layer of which none obeyed it either *)
C19_Witness ==
    /\ pc = "cf_extra_proximity"
    /\ extra_charged = << >>
    /\ filtered_list # << >>
    /\ NoneObeys(filtered_list)

(* C20: charge_filtration returns a non-empty list for every non-empty input list,
   a structure of minimal charge span being among those returned *)
C20_NeverEmpty ==
    ChargeCallEnded =>
        /\ result # << >>
        /\ \E i \in 1..Len(result) : get_charge_span(result[i]) = MinInputSpan

----------------------------------------------------------------------------
(* the radical sites and multiple bond sites of the structures of a list, as
   charge_filtration collects them from filtered_list *)
RadicalSites(ml) ==
    UNION {{a \in Atoms(ml[i]) : ml[i].rad[a] # 0} : i \in 1..Len(ml)}

MultipleBondSites(ml) ==
    UNION {{{ml[i].ba[b], ml[i].bb[b]} : b \in {x \in Bonds(ml[i]) : ml[i].ord[x] \in {2, 3}}} :
           i \in 1..Len(ml)}

(* mol has a radical atom that is not in rad_idxs, or on any of its atoms a double
   or triple bond, not between two sulfur atoms, that is not in mul_bond_idxs *)
IntroducesSite(mol, rad_idxs, mul_bond_idxs) ==
    \/ \E a \in Atoms(mol) : mol.rad[a] # 0 /\ a \notin rad_idxs
    \/ \E b \in Bonds(mol) :
          /\ mol.ord[b] \in {2, 3}
          /\ {mol.ba[b], mol.bb[b]} \notin mul_bond_idxs
          /\ ~(mol.elem[mol.ba[b]] = 16 /\ mol.elem[mol.bb[b]] = 16)

(* C21: when charge_filtration tests the structures of the second layer,
   has_unique_sites is true of a structure if and only if the structure has a
   radical site or a multiple bond site, on any of its atoms, that no structure of
   filtered_list has; the structures kept for the merge are exactly those *)
C21_UniqueSitesOnAnyAtom ==
    pc = "cf_unique_sites" =>
        \A i \in 1..Len(extra_charged) :
           has_unique_sites(extra_charged[i], RadicalSites(filtered_list),
                            MultipleBondSites(filtered_list))
           <=> IntroducesSite(extra_charged[i], RadicalSites(filtered_list),
                              MultipleBondSites(filtered_list))

----------------------------------------------------------------------------
(* the six-membered rings of a structure that carry one of the two Kekule
   signatures *)
KekuleRings(mol) ==
    {r \in 1..Len(mol.rings) :
        /\ Len(mol.rings[r]) = 6
        /\ RingOrderStr(mol, mol.rings[r]) \in
              {<<"S", "D", "S", "D", "S", "D">>, <<"D", "S", "D", "S", "D", "S">>}}

SixRings(mol) == {r \in 1..Len(mol.rings) : Len(mol.rings[r]) = 6}

(* the candidates of filtered_list, flags normalised, as the filter looks at them *)
AromaticityCandidates == {unset_aromatic_flags(filtered_list[i]) : i \in 1..Len(filtered_list)}

AromaticityApplies == ~features.none /\ features.is_aromatic

(* C22 as stated: aromaticity_filtration keeps every aromatic candidate, in a
   system that is not polycyclic also every other candidate unless all of its
   six-membered rings have the signature SDSDSD or DSDSDS, in a polycyclic system
   exactly the aromatic candidates, and filter_structures applies it only when the
   snapshot says aromatic *)
C22_Original ==
    [][pc = "fs_aromaticity" =>
          IF AromaticityApplies
          THEN Range(filtered_list') =
                  {m \in AromaticityCandidates :
                      \/ is_aromatic(m)
                      \/ /\ ~features.isPolycyclicAromatic
                         /\ ~(SixRings(m) # {} /\ KekuleRings(m) = SixRings(m))}
          ELSE filtered_list' = filtered_list]_vars

(* C22: aromaticity_filtration keeps every aromatic candidate; in a system that is
   not polycyclic it also keeps every other candidate unless one of its six-membered
   rings has the signature SDSDSD or DSDSDS; in a polycyclic system it keeps exactly
   the aromatic candidates; filter_structures applies it only when the snapshot
   says aromatic, and leaves the list alone otherwise *)
C22_AromaticityFiltration ==
    [][pc = "fs_aromaticity" =>
          IF AromaticityApplies
          THEN Range(filtered_list') =
                  {m \in AromaticityCandidates :
                      \/ is_aromatic(m)
                      \/ /\ ~features.isPolycyclicAromatic
                         /\ KekuleRings(m) = {}}
          ELSE filtered_list' = filtered_list]_vars

(* the filter, handed the analysis of aromatic tetralin, has dropped a Kekule form
   of tetralin, whose second six-membered ring has no Kekule signature *)
C22_Witness ==
    /\ entry = "filter_structures" /\ pc = "fs_check"
    /\ AromaticityApplies /\ ~features.isPolycyclicAromatic
    /\ features = analyze_molecule(input_list[1])
    /\ \E i \in 1..Len(mol_list) :
          /\ ~is_aromatic(mol_list[i])
          /\ KekuleRings(mol_list[i]) # {}
          /\ KekuleRings(mol_list[i]) # SixRings(mol_list[i])
          /\ \A j \in 1..Len(filtered_list) : filtered_list[j] # mol_list[i]

----------------------------------------------------------------------------
(* one call of a path finder on an atom of a graph, or of a rule on a graph *)

(* a centre (atom 1) with three neighbours *)
Star4(elem, chg, rad, ord) ==
    [topo |-> "star4", elem |-> elem, nh |-> <<0, 0, 0, 0>>, chg |-> chg, rad |-> rad,
     ba |-> <<1, 1, 1>>, bb |-> <<2, 3, 4>>, ord |-> ord, aro |-> <<FALSE, FALSE, FALSE>>,
     rings |-> << >>]

(* the NO3 radical: the centre N(+), one O double bonded, one O radical, one O(-),
   in every order of the three bonds *)
NitrateRadicalForms ==
    {m \in {Star4(<<7, 8, 8, 8>>, <<1>> \o c, <<0>> \o r, o) :
                c \in [1..3 -> {-1, 0}], r \in [1..3 -> {0, 1}], o \in [1..3 -> {1, 2}]} :
        /\ GetFormalCharge(m) = 0 /\ get_radical_count(m) = 1 /\ ValenceOK(m)
        /\ get_octet_deviation(m, TRUE) <= 2}

(* a six-ring of carbons with the given bond orders, every carbon with the hydrogens
   its valence leaves *)
RingOfOrders(ord) ==
    Ring6([a \in 1..6 |-> MaxOf({0, 4 - ord[a] - ord[IF a = 1 THEN 6 ELSE a - 1]})],
          <<0, 0, 0, 0, 0, 0>>, ord, [i \in 1..6 |-> FALSE])

Reverse(s) == [i \in 1..Len(s) |-> s[Len(s) + 1 - i]]

(* every starting bond and direction of a cyclic order pattern *)
Listings(pattern) ==
    {Rot(pattern, k) : k \in 0..5} \cup {Rot(Reverse(pattern), k) : k \in 0..5}

AryneRingForms ==
    {RingOfOrders(o) :
        o \in Listings(<<2, 2, 2, 1, 2, 1>>) \cup Listings(<<3, 1, 2, 1, 2, 1>>)
              \cup Listings(<<1, 3, 1, 2, 1, 2>>) \cup Listings(<<2, 2, 1, 2, 1, 2>>)
              \cup Listings(<<3, 1, 3, 1, 2, 1>>) \cup Listings(<<2, 1, 2, 1, 1, 1>>)
              \cup Listings(<<2, 1, 2, 1, 2, 1>>) \cup Listings(<<3, 1, 1, 1, 2, 1>>)}

(* three-atom chains with a closed shell or one radical, and octets at most one
   electron pair off *)
RuleChains ==
    {m \in ChainStructures(<<6, 6, 6>>, <<2, 1, 2>>, 0)
           \cup ChainStructures(<<8, 8, 8>>, <<1, 0, 0>>, 0)
           \cup ChainStructures(<<16, 16, 8>>, <<1, 0, 0>>, 0)
           \cup ChainStructures(<<16, 16, 6>>, <<0, 0, 2>>, 0)
           \cup ChainStructures(<<7, 6, 6>>, <<1, 1, 2>>, 0)
           \cup ChainStructures(<<7, 6, 6>>, <<1, 1, 3>>, 0)
           \cup ChainStructures(<<6, 7, 8>>, <<2, 0, 0>>, 0)
           \cup U1 \cup U2 \cup U3 \cup U4 \cup U5 :
        get_radical_count(m) <= 1 /\ get_octet_deviation(m, TRUE) <= 2}

RuleInputs == RuleChains \cup NitrateRadicalForms \cup AryneRingForms
              \cup BenzeneForms \cup NaphForms

FinderNames ==
    {"find_allyl_delocalization_paths", "find_lone_pair_multiple_bond_paths",
     "find_adj_lone_pair_radical_delocalization_paths",
     "find_adj_lone_pair_multiple_bond_delocalization_paths",
     "find_adj_lone_pair_radical_multiple_bond_delocalization_paths",
     "find_N5dc_radical_delocalization_paths"}

RuleNames ==
    {"generate_allyl_delocalization_resonance_structures",
     "generate_lone_pair_multiple_bond_resonance_structures",
     "generate_adj_lone_pair_radical_resonance_structures",
     "generate_adj_lone_pair_multiple_bond_resonance_structures",
     "generate_adj_lone_pair_radical_multiple_bond_resonance_structures",
     "generate_N5dc_radical_resonance_structures",
     "generate_aryne_resonance_structures", "generate_clar_structures"}

apply_finder(name, mol, atom1) ==
    CASE name = "find_allyl_delocalization_paths" ->
              find_allyl_delocalization_paths(mol, atom1)
      [] name = "find_lone_pair_multiple_bond_paths" ->
              find_lone_pair_multiple_bond_paths(mol, atom1)
      [] name = "find_adj_lone_pair_radical_delocalization_paths" ->
              find_adj_lone_pair_radical_delocalization_paths(mol, atom1)
      [] name = "find_adj_lone_pair_multiple_bond_delocalization_paths" ->
              find_adj_lone_pair_multiple_bond_delocalization_paths(mol, atom1)
      [] name = "find_adj_lone_pair_radical_multiple_bond_delocalization_paths" ->
              find_adj_lone_pair_radical_multiple_bond_delocalization_paths(mol, atom1)
      [] name = "find_N5dc_radical_delocalization_paths" ->
              find_N5dc_radical_delocalization_paths(mol, atom1)

(* mol_list holds the graph handed in, index the atom a finder is called on (0 for
   a rule), result what the call returned *)
InitRules ==
    /\ entry = "rule"
    /\ pc = "rule_start"
    /\ input_list \in {<<m>> : m \in RuleInputs}
    /\ mol_list = input_list
    /\ method_list \in {<<n>> : n \in FinderNames \cup RuleNames}
    /\ index \in (IF method_list[1] \in FinderNames THEN Atoms(input_list[1]) ELSE {0})
    /\ opts = NoOpts
    /\ features = NoFeatures
    /\ extra_charged = << >>
    /\ filtered_list = << >>
    /\ min_octet_deviation = 0
    /\ min_charge_span = 0
    /\ todo = << >>
    /\ passes = << >>
    /\ result = << >>
    /\ kek = 0

call_finder ==
    /\ entry = "rule" /\ pc = "rule_start"
    /\ method_list[1] \in FinderNames
    /\ result' = apply_finder(method_list[1], mol_list[1], index)
    /\ pc' = "rule_done"
    /\ UNCHANGED <<entry, input_list, opts, features, mol_list, extra_charged, filtered_list,
                   method_list, index, min_octet_deviation, min_charge_span, todo, passes,
                   kek>>

(* the rule may edit the graph handed in: mol_list holds it as the call left it *)
call_rule ==
    /\ entry = "rule" /\ pc = "rule_start"
    /\ method_list[1] \in RuleNames
    /\ \E r \in {apply_method(method_list[1], mol_list[1], kek)} :
          /\ result' = r.list
          /\ mol_list' = <<r.arg>>
    /\ pc' = "rule_done"
    /\ UNCHANGED <<entry, input_list, opts, features, extra_charged, filtered_list,
                   method_list, index, min_octet_deviation, min_charge_span, todo, passes,
                   kek>>

NextRules == call_finder \/ call_rule

SpecRules == InitRules /\ [][NextRules]_vars

Returned(name) == entry = "rule" /\ pc = "rule_done" /\ method_list[1] = name

----------------------------------------------------------------------------
(* a returned path as the tuple of the indices of its atoms and bonds *)
PathIdx(p) == [i \in 1..Len(p) |-> p[i].idx]

ReturnedPaths == {PathIdx(result[i]) : i \in 1..Len(result)}

(* the paths (atom1, atom2, atom3, bond12, bond23) of mol from atom1 with bond12 of
   an order in o12 and bond23 of an order in o23, atom3 another atom than atom1 *)
ThreeAtomPaths(mol, atom1, o12, o23) ==
    {<<atom1, GetOtherAtom(mol, b12, atom1),
       GetOtherAtom(mol, b23, GetOtherAtom(mol, b12, atom1)), b12, b23>> :
        <<b12, b23>> \in
            {bb \in Bonds(mol) \X Bonds(mol) :
                /\ bb[1] \in GetBonds(mol, atom1)
                /\ bb[2] \in GetBonds(mol, GetOtherAtom(mol, bb[1], atom1))
                /\ mol.ord[bb[1]] \in o12 /\ mol.ord[bb[2]] \in o23
                /\ GetOtherAtom(mol, bb[2], GetOtherAtom(mol, bb[1], atom1)) # atom1}}

(* C23: find_lone_pair_multiple_bond_paths(atom1) returns exactly the paths (atom1,
   atom2, atom3, bond12, bond23) for which atom1 is not carbon, has a lone pair
   and is able to lose one, bond12 is single or double, bond23 is double or triple,
   atom3 is not atom1, and atom3 is carbon or able to gain a lone pair; a bond12
   between two sulfur atoms, which the finder passes over, is set aside *)
C23_LonePairMultipleBondPaths ==
    Returned("find_lone_pair_multiple_bond_paths") =>
        LET mol == mol_list[1]
        IN ReturnedPaths =
              {p \in ThreeAtomPaths(mol, index, {1, 2}, {2, 3}) :
                  /\ mol.elem[index] # 6
                  /\ get_lone_pair(mol, index) >= 2
                  /\ is_atom_able_to_lose_lone_pair(mol, index)
                  /\ ~(mol.elem[p[1]] = 16 /\ mol.elem[p[2]] = 16)
                  /\ (mol.elem[p[3]] = 6 \/ is_atom_able_to_gain_lone_pair(mol, p[3]))}

(* C24: find_adj_lone_pair_radical_delocalization_paths never returns a path whose
   radical atom (atom1) and lone pair atom (atom2) are both oxygen *)
C24_NoOxygenOxygenPath ==
    Returned("find_adj_lone_pair_radical_delocalization_paths") =>
        \A p \in ReturnedPaths :
            ~(mol_list[1].elem[p[1]] = 8 /\ mol_list[1].elem[p[2]] = 8)

(* C25 as stated: the adjacent lone pair / multiple bond finder never returns a
   direction 1 path between two sulfur atoms, and no path when atom1 is carbon or
   atom2 is hydrogen *)
C25_Original ==
    Returned("find_adj_lone_pair_multiple_bond_delocalization_paths") =>
        LET mol == mol_list[1]
        IN /\ \A p \in ReturnedPaths :
                 /\ ~(p[4] = 1 /\ mol.elem[p[1]] = 16 /\ mol.elem[p[2]] = 16)
                 /\ mol.elem[p[2]] > 1
           /\ mol.elem[index] = 6 => result = << >>

(* C25: the adjacent lone pair / multiple bond finder never returns a direction 1
   path along a double bond between two sulfur atoms, so that raising the bond of a
   returned path never makes a sulfur-sulfur triple bond; it returns no path when
   atom1 is carbon or atom2 is hydrogen *)
C25_NoSulfurTripleBond ==
    Returned("find_adj_lone_pair_multiple_bond_delocalization_paths") =>
        LET mol == mol_list[1]
        IN /\ \A p \in ReturnedPaths :
                 /\ (p[4] = 1 /\ mol.elem[p[1]] = 16 /\ mol.elem[p[2]] = 16)
                       => mol.ord[p[3]] + 1 < 3
                 /\ mol.elem[p[2]] > 1
           /\ mol.elem[index] = 6 => result = << >>

(* the finder was called on a sulfur able to lose a lone pair, double bonded to a
   sulfur, and returned paths, none of them raising that bond *)
C25_Witness ==
    /\ Returned("find_adj_lone_pair_multiple_bond_delocalization_paths")
    /\ mol_list[1].elem[index] = 16
    /\ is_atom_able_to_lose_lone_pair(mol_list[1], index)
    /\ result # << >>
    /\ \E b \in GetBonds(mol_list[1], index) :
          /\ mol_list[1].ord[b] = 2
          /\ mol_list[1].elem[GetOtherAtom(mol_list[1], b, index)] = 16
          /\ \A p \in ReturnedPaths : ~(p[3] = b /\ p[4] = 1)

(* the structure the adjacent lone pair / multiple bond shift of path p makes of mol:
   direction 1 raises bond12 and takes a lone pair from atom1, direction 2 lowers
   bond12 and gives atom1 a lone pair; atom2 keeps its lone pairs; the formal
   charges of both atoms follow from their electrons *)
AdjLonePairMultipleBondShift(mol, p) ==
    LET atom1 == p[1]
        atom2 == p[2]
        bond12 == p[3]
        d == IF p[4] = 1 THEN 1 ELSE -1
        shifted == [mol EXCEPT !.ord[bond12] = @ + d]
        lone_pair1 == get_lone_pair(mol, atom1) - 2 * d
        lone_pair2 == get_lone_pair(mol, atom2)
    IN [shifted EXCEPT
          !.chg[atom1] = GetNOuterElecs(mol.elem[atom1]) - mol.rad[atom1]
                            - get_total_bond_order(shifted, atom1) - lone_pair1,
          !.chg[atom2] = GetNOuterElecs(mol.elem[atom2]) - mol.rad[atom2]
                            - get_total_bond_order(shifted, atom2) - lone_pair2]

AdjLonePairMultipleBondPaths(mol) ==
    UNION {{PathIdx(find_adj_lone_pair_multiple_bond_delocalization_paths(mol, a)[i]) :
               i \in 1..Len(find_adj_lone_pair_multiple_bond_delocalization_paths(mol, a))} :
           a \in Atoms(mol)}

(* C26: for every path of the adjacent lone pair / multiple bond finder whose
   shifted structure is valid, generate_adj_lone_pair_multiple_bond_resonance_structures
   returns that structure: bond12 one order up and atom1 one lone pair less in
   direction 1, bond12 one order down and atom1 one lone pair more in direction 2,
   formal charges recomputed *)
C26_CandidatePerValidPath ==
    Returned("generate_adj_lone_pair_multiple_bond_resonance_structures") =>
        \A p \in AdjLonePairMultipleBondPaths(input_list[1]) :
            ValenceOK(AdjLonePairMultipleBondShift(input_list[1], p)) =>
                \E i \in 1..Len(result) :
                    result[i] = SetAromaticity(AdjLonePairMultipleBondShift(input_list[1], p))

(* a positively charged, radical-free nitrogen with three neighbours *)
IsN5dcCenter(mol, a) ==
    /\ mol.elem[a] = 7 /\ mol.chg[a] = 1 /\ mol.rad[a] = 0
    /\ Cardinality(GetBonds(mol, a)) + mol.nh[a] = 3

(* the pairs (atom2, atom3) of neighbours of the centre a: atom2 a neutral radical,
   atom3 negatively charged, both singly bonded to a and able to lose a lone pair *)
N5dcPairs(mol, a) ==
    {p \in Atoms(mol) \X Atoms(mol) :
        /\ p[1] # p[2]
        /\ \E b \in GetBonds(mol, a) : GetOtherAtom(mol, b, a) = p[1] /\ mol.ord[b] = 1
        /\ \E b \in GetBonds(mol, a) : GetOtherAtom(mol, b, a) = p[2] /\ mol.ord[b] = 1
        /\ mol.rad[p[1]] > 0 /\ mol.chg[p[1]] = 0
        /\ is_atom_able_to_lose_lone_pair(mol, p[1])
        /\ mol.chg[p[2]] < 0
        /\ is_atom_able_to_lose_lone_pair(mol, p[2])}

(* the radical moved from atom2 to atom3: atom2 gains the lone pair and the charge
   that atom3 gives up *)
N5dcShift(mol, p) ==
    [mol EXCEPT !.rad[p[1]] = @ - 1, !.rad[p[2]] = @ + 1,
                !.chg[p[1]] = @ - 1, !.chg[p[2]] = @ + 1]

(* C27: for a graph with an N5dc centre singly bonded to a neutral radical neighbour
   and to a negatively charged neighbour, both able to lose a lone pair,
   generate_N5dc_radical_resonance_structures returns a candidate in which the
   radical has moved from the first neighbour to the second, with lone pairs and
   charges exchanged; it returns at most one candidate per centre *)
C27_N5dcRadicalMoves ==
    Returned("generate_N5dc_radical_resonance_structures") =>
        LET mol == input_list[1]
            centers == {a \in Atoms(mol) : IsN5dcCenter(mol, a) /\ N5dcPairs(mol, a) # {}}
        IN /\ \A a \in centers :
                 \E p \in N5dcPairs(mol, a) :
                    \E i \in 1..Len(result) : result[i] = N5dcShift(mol, p)
           /\ Len(result) <= Cardinality(centers)

Cumulene == <<2, 2, 2, 1, 2, 1>>

Alkyne == <<3, 1, 2, 1, 2, 1>>

(* pattern, listed from the bond that the ring listing has at position k + 1 *)
Unrot(pattern, k) == Rot(pattern, (6 - k) % 6)

(* what the aryne rule is to return for the six-ring mol: the ring rewritten bond
   for bond if its orders are a rotation of DDDSDS or of TSDSDS, nothing otherwise *)
AryneRewrite(mol) ==
    IF \E k \in 0..5 : Rot(mol.ord, k) = Cumulene
    THEN <<[mol EXCEPT !.ord = Unrot(<<1, 3, 1, 2, 1, 2>>,
                                     CHOOSE k \in 0..5 : Rot(mol.ord, k) = Cumulene)]>>
    ELSE IF \E k \in 0..5 : Rot(mol.ord, k) = Alkyne
    THEN <<[mol EXCEPT !.ord = Unrot(<<2, 2, 1, 2, 1, 2>>,
                                     CHOOSE k \in 0..5 : Rot(mol.ord, k) = Alkyne)]>>
    ELSE << >>

(* C28: generate_aryne_resonance_structures rewrites a six-membered ring with the
   cyclic signature DDDSDS to STSDSD and one with TSDSDS to DDSDSD on the same
   bonds, whatever bond and direction the ring listing starts with, returns no
   candidate for a ring of any other signature, and applied to the ring it produced
   gives back the original bond orders bond for bond *)
C28_AryneRewriteInvolution ==
    (Returned("generate_aryne_resonance_structures") /\ input_list[1].topo = "ring6") =>
        /\ result = AryneRewrite(input_list[1])
        /\ \A i \in 1..Len(result) :
              \E again \in {generate_aryne_resonance_structures(result[i]).list} :
                 Len(again) = 1 /\ again[1].ord = input_list[1].ord

(* the rule has rewritten a ring whose listing does not start at the triple bond or
   at the three double bonds *)
C28_Witness ==
    /\ Returned("generate_aryne_resonance_structures")
    /\ input_list[1].topo = "ring6"
    /\ \E k \in 1..5 : Rot(input_list[1].ord, k) \in {Cumulene, Alkyne}
    /\ Len(result) = 1
    /\ result[1].ord # input_list[1].ord

(* rings of another signature have been handed to the rule *)
C28_WitnessOther ==
    /\ Returned("generate_aryne_resonance_structures")
    /\ input_list[1].topo = "ring6"
    /\ \A k \in 0..5 : Rot(input_list[1].ord, k) \notin {Cumulene, Alkyne}
    /\ Count(RingOrderStr(input_list[1], input_list[1].rings[1]), "T") = 1

(* the sets of sextet rings (indices into the aromatic rings of mol) that go with a
   set of double bonds so that every ring atom lies in exactly one chosen sextet or
   double bond, bonds leaving the rings keeping their order *)
FeasibleSextetSets(mol) ==
    LET rings == get_aromatic_rings(mol)
        atoms == UNION {RingAtoms(mol, rings[r]) : r \in 1..Len(rings)}
        bonds == {b \in Bonds(mol) : mol.ba[b] \in atoms \/ mol.bb[b] \in atoms}
        exo == {b \in bonds : mol.ba[b] \notin atoms \/ mol.bb[b] \notin atoms}
    IN {y \in SUBSET (1..Len(rings)) :
           \E x \in SUBSET bonds :
              /\ \A b \in exo : b \in x <=> mol.ord[b] = 2
              /\ \A a \in atoms :
                    Cardinality({r \in y : a \in RingAtoms(mol, rings[r])})
                    + Cardinality({b \in x : a \in {mol.ba[b], mol.bb[b]}}) = 1}

(* those of the largest size, if that is not zero *)
OptimalSextetSets(mol) ==
    {y \in FeasibleSextetSets(mol) :
        /\ y # {}
        /\ \A z \in FeasibleSextetSets(mol) : Cardinality(z) <= Cardinality(y)}

(* C29: _clar_optimization returns one solution for each set of sextet rings of
   maximal size that satisfies the per-atom constraint, each set once, and
   generate_clar_structures one Clar structure for each of them; the re-solving ends *)
C29_EveryOptimalSextetSet ==
    Returned("generate_clar_structures") =>
        /\ _clar_optimization(input_list[1]).ok
        /\ Len(_clar_optimization(input_list[1]).output)
              = Cardinality(OptimalSextetSets(input_list[1]))
        /\ Len(result) = Cardinality(OptimalSextetSets(input_list[1]))

(* the allyl paths of mol: atom1 a radical, bond12 single or double, bond23 double
   or triple, atom3 another atom than atom1 *)
AllylPaths(mol) ==
    UNION {ThreeAtomPaths(mol, a, {1, 2}, {2, 3}) : a \in {x \in Atoms(mol) : mol.rad[x] > 0}}

(* the allyl shift along p: the radical goes from atom1 to atom3, bond12 gains and
   bond23 loses an order *)
AllylShift(mol, p) ==
    [mol EXCEPT !.rad[p[1]] = @ - 1, !.rad[p[3]] = @ + 1,
                !.ord[p[4]] = @ + 1, !.ord[p[5]] = @ - 1]

SumOfBondOrders(mol) == SumSeq(mol.ord)

(* C30: on a radical graph generate_allyl_delocalization_resonance_structures
   returns, for every allyl path, the input with atom1's radical count one down,
   atom3's one up, bond12 one order up and bond23 one order down, and nothing else;
   radical electrons, the sum of bond orders and all formal charges are those of
   the input; a graph without radicals yields no candidate *)
C30_AllylShiftOnly ==
    Returned("generate_allyl_delocalization_resonance_structures") =>
        LET mol == input_list[1]
        IN /\ Range(result) = {SetAromaticity(AllylShift(mol, p)) : p \in AllylPaths(mol)}
           /\ \A i \in 1..Len(result) :
                 /\ get_radical_count(result[i]) = get_radical_count(mol)
                 /\ SumOfBondOrders(result[i]) = SumOfBondOrders(mol)
                 /\ result[i].chg = mol.chg
           /\ ~is_radical(mol) => result = << >>

====
